---- MODULE Spec2Model ----
(***************************************************************************)
(* Chunked voxel world of mkcraft (src/src/world.rs): the chunk map, the   *)
(* per-chunk lazy ChunkState behind its RwLock, World::get_block and       *)
(* World::set_block, the change-notification channels and the WorldView    *)
(* snapshot built by WorldView::from_range.                                *)
(*                                                                         *)
(* An Option is a sequence: <<>> is None and <<v>> is Some(v).             *)
(* An Arc<RwLock<ChunkState>> is a handle: an index into heap, with its    *)
(* lock in locks.  A critical section that takes one lock, blocks on       *)
(* nothing inside and releases is one step.                                *)
(***************************************************************************)
EXTENDS Integers, Sequences, FiniteSets, TLC

\* Edge length of a chunk (32 in the source, scaled down here).
CHUNK_SIZE_X == 2
CHUNK_SIZE == CHUNK_SIZE_X * CHUNK_SIZE_X * CHUNK_SIZE_X

\* Calls started in one behaviour.
MaxOps == 3
\* Listeners registered in one behaviour.
MaxListeners == 2

Threads == {1, 2}
NoThread == 0

None == <<>>
Some(v) == <<v>>
IsSome(o) == o # <<>>
Unwrap(o) == o[1]

\* ------------------------------------------------------------------------
\* i32::div_euclid and i32::rem_euclid, computed as the standard library
\* does: truncating division, then a correction for a negative remainder.
TruncDiv(a, b) ==
    IF (a >= 0) = (b > 0)
    THEN (IF a >= 0 THEN a ELSE -a) \div (IF b > 0 THEN b ELSE -b)
    ELSE -((IF a >= 0 THEN a ELSE -a) \div (IF b > 0 THEN b ELSE -b))

TruncRem(a, b) == a - b * TruncDiv(a, b)

\* A division that forgets the correction (rounds towards zero).
div_euclid_trunc(a, b) == TruncDiv(a, b)

div_euclid(a, b) ==
    LET q == TruncDiv(a, b)
    IN  IF TruncRem(a, b) < 0
        THEN (IF b > 0 THEN q - 1 ELSE q + 1)
        ELSE q

\* A remainder that forgets the correction (takes the sign of a).
rem_euclid_trunc(a, b) == TruncRem(a, b)

rem_euclid(a, b) ==
    LET r == TruncRem(a, b)
    IN  IF r < 0 THEN (IF b < 0 THEN r - b ELSE r + b) ELSE r

\* ------------------------------------------------------------------------
\* Height-field samples.  The noise library is outside the repository: its
\* generators are fixed functions of the global column (gx, gz).  Variance
\* samples are +-0.02, so normalized_variance is 0 or 1 and the blend is an
\* integer.
fbm_noise(gx, gz) == ((gx + 2 * gz) % 3) - 1
ridge_noise(gx, gz) == (gx + gz) % 2
variance_noise(gx, gz) == IF (gx + gz) % 2 = 0 THEN 1 ELSE -1

Columns == 0 .. (CHUNK_SIZE_X * CHUNK_SIZE_X - 1)
ColX(i) == i % CHUNK_SIZE_X
ColZ(i) == i \div CHUNK_SIZE_X

ChunkNoises_new(x, y, z) ==
    [ noise |-> [i \in Columns |->
                  fbm_noise(x * CHUNK_SIZE_X + ColX(i), z * CHUNK_SIZE_X + ColZ(i))],
      noise_mountains |-> [i \in Columns |->
                  ridge_noise(x * CHUNK_SIZE_X + ColX(i), z * CHUNK_SIZE_X + ColZ(i))],
      variance |-> [i \in Columns |->
                  variance_noise(x * CHUNK_SIZE_X + ColX(i), z * CHUNK_SIZE_X + ColZ(i))],
      rng |-> <<x, y, z>> ]

\* ------------------------------------------------------------------------
\* ChunkData
Cells == 0 .. (CHUNK_SIZE - 1)
CellX(i) == i % CHUNK_SIZE_X
CellY(i) == (i \div CHUNK_SIZE_X) % CHUNK_SIZE_X
CellZ(i) == i \div (CHUNK_SIZE_X * CHUNK_SIZE_X)

TargetHeight(noises, col) ==
    LET normalized_variance == (noises.variance[col] + 1) \div 2
    IN  (-noises.noise_mountains[col]) * normalized_variance
          + noises.noise[col] * (1 - normalized_variance)

\* The id the cascade of assignments of ChunkData::new leaves in one cell.
GeneratedBlock(global_y, target_height) ==
    LET dirt_height == target_height + 2
        grass_height == dirt_height + 1
    IN  IF global_y <= target_height THEN 1
        ELSE IF global_y <= dirt_height THEN 2
        ELSE IF global_y = grass_height
             THEN (IF global_y >= 0 THEN 3 ELSE 2)
        ELSE IF global_y <= 0 THEN 4
        ELSE 0

\* A generation that records the surface at global y = 0 too.
ChunkData_new_any_surface(basis_x, basis_y, basis_z, noises) ==
    [ block_ids |-> [i \in Cells |->
          GeneratedBlock(basis_y * CHUNK_SIZE_X + CellY(i),
                         TargetHeight(noises, CellX(i) + CellZ(i) * CHUNK_SIZE_X))],
      height_map |-> [c \in Columns |->
          LET gh == TargetHeight(noises, c) + 3
              y == gh - basis_y * CHUNK_SIZE_X
          IN  IF y >= 0 /\ y < CHUNK_SIZE_X /\ gh >= 0 THEN Some(y) ELSE None] ]

ChunkData_new(basis_x, basis_y, basis_z, noises) ==
    [ block_ids |-> [i \in Cells |->
          GeneratedBlock(basis_y * CHUNK_SIZE_X + CellY(i),
                         TargetHeight(noises, CellX(i) + CellZ(i) * CHUNK_SIZE_X))],
      height_map |-> [c \in Columns |->
          LET gh == TargetHeight(noises, c) + 3
              y == gh - basis_y * CHUNK_SIZE_X
          IN  IF y >= 0 /\ y < CHUNK_SIZE_X /\ gh > 0 THEN Some(y) ELSE None] ]

ChunkData_index(x, y, z) == x + y * CHUNK_SIZE_X + z * CHUNK_SIZE_X * CHUNK_SIZE_X

ChunkData_set_block(data, x, y, z, block_id) ==
    LET index == ChunkData_index(x, y, z)
    IN  IF index < CHUNK_SIZE
        THEN [data EXCEPT !.block_ids[index] = block_id]
        ELSE data

ChunkData_get_block(data, x, y, z) ==
    LET index == ChunkData_index(x, y, z)
    IN  IF index < CHUNK_SIZE THEN data.block_ids[index] ELSE 0

\* ------------------------------------------------------------------------
\* ChunkState
ChunkState_new(x, y, z) == [data |-> None, noises |-> None, x |-> x, y |-> y, z |-> z]

ChunkState_ensure_noised(cs) ==
    IF cs.noises = None
    THEN [cs EXCEPT !.noises = Some(ChunkNoises_new(cs.x, cs.y, cs.z))]
    ELSE cs

\* A formation that regenerates a chunk that is already formed.
ChunkState_ensure_formed_always(cs) ==
    LET n == ChunkState_ensure_noised(cs)
    IN  [n EXCEPT !.data = Some(ChunkData_new(n.x, n.y, n.z, Unwrap(n.noises)))]

\* A formation that computes the height field but does not keep it.
ChunkState_ensure_formed_unnoised(cs) ==
    IF cs.data = None
    THEN [cs EXCEPT !.data = Some(ChunkData_new(cs.x, cs.y, cs.z,
                                                ChunkNoises_new(cs.x, cs.y, cs.z)))]
    ELSE cs

ChunkState_ensure_formed(cs) ==
    IF cs.data = None
    THEN LET n == ChunkState_ensure_noised(cs)
         IN  [n EXCEPT !.data = Some(ChunkData_new(n.x, n.y, n.z, Unwrap(n.noises)))]
    ELSE cs

ChunkState_is_formed(cs) == IsSome(cs.data)

\* A write that throws the height field away once the cell is stored.
ChunkState_set_block_dropping_noises(cs, x, y, z, block_id) ==
    LET f == ChunkState_ensure_formed(cs)
    IN  [f EXCEPT !.data = Some(ChunkData_set_block(Unwrap(f.data), x, y, z, block_id)),
                  !.noises = None]

\* set_block forms the chunk first, so its panic branch is dead code.
ChunkState_set_block(cs, x, y, z, block_id) ==
    LET f == ChunkState_ensure_formed(cs)
    IN  [f EXCEPT !.data = Some(ChunkData_set_block(Unwrap(f.data), x, y, z, block_id))]

Panic == -1

\* A read that takes a chunk without data for air.
ChunkState_get_block_air(cs, x, y, z) ==
    IF IsSome(cs.data) THEN ChunkData_get_block(Unwrap(cs.data), x, y, z) ELSE 0

ChunkState_get_block(cs, x, y, z) ==
    IF IsSome(cs.data) THEN ChunkData_get_block(Unwrap(cs.data), x, y, z) ELSE Panic

\* ------------------------------------------------------------------------
\* Inputs of the calls.
Voxels == { <<0, 0, 0>>, <<0, 0, CHUNK_SIZE_X - 1>>, <<-1, 0, 0>> }
BlockIds == {0, 1}
\* Inclusive boxes <<start_x, end_x, start_y, end_y, start_z, end_z>>.
Boxes == { <<-1, 0, 0, 0, 0, 0>>, <<0, 0, -1, 0, 0, CHUNK_SIZE_X - 1>> }
ChunkRanges == { <<-1, 0, 0, 0, 0, 0>> }
ChunkCoords == { <<0, 0, 0>> }
\* Voxels written while listeners are registered: two chunks, one of them
\* at a negative coordinate.
NotifyVoxels == { <<0, 0, 0>>, <<-1, 0, 0>> }
\* Two voxels of two chunks that are written one after the other, and the
\* number of calls made then.
FirstVoxel == <<-1, 0, 0>>
SecondVoxel == <<0, 0, 0>>
MaxOrderOps == 4
\* The voxel read and written where the map's lock is followed step by
\* step: in the second chunk of the box ChunkRanges covers.
LockVoxels == { <<0, 0, 0>> }
\* Centres and radii of the neighborhoods built, and the coordinates they
\* are asked for: in the centre chunk, in the -X neighbour, two chunks
\* beyond the centre in +z and in -z, and two chunks beyond it in -x.
\* QueuedItems made in one behaviour, and the values their work produces.
MaxItems == 2
WorkOutputs == { 1, 2 }
\* World coordinates that are split on their own: -MaxCoord .. MaxCoord on
\* each axis.
MaxCoord == 4
WorldCoords == { <<x, y, z>> : x \in (-MaxCoord) .. MaxCoord, y \in (-MaxCoord) .. MaxCoord,
                               z \in (-MaxCoord) .. MaxCoord }
\* Chunk coordinates of a ChunkState used on its own, and the local
\* coordinates it is asked for (all of them).
CsCoords == { <<0, 0, 0>>, <<-1, 0, 1>>, <<0, -1, 0>> }
Locals == { <<x, y, z>> : x \in 0 .. (CHUNK_SIZE_X - 1), y \in 0 .. (CHUNK_SIZE_X - 1),
                          z \in 0 .. (CHUNK_SIZE_X - 1) }
NbCentres == { <<0, 0, 0>> }
NbRadii == { 0, 1 }
NbVoxels == { <<0, 0, 0>>, <<-1, 0, 0>>, <<0, 0, 2 * CHUNK_SIZE_X>>,
              <<0, 0, -(CHUNK_SIZE_X + 1)>>, <<-2 * CHUNK_SIZE_X, 0, 0>> }
\* Coordinates a finished view is asked for: one step outside every box on
\* every axis and side.
Queries == { <<-2, 0, 0>>, <<1, 0, 0>>, <<0, -2, 0>>, <<0, 1, 0>>,
             <<0, 0, -1>>, <<0, 0, CHUNK_SIZE_X>>, <<0, 0, 0>> }

VARIABLES
    chunks,                  \* World.chunks: chunk coordinate -> handle
    heap,                    \* handle -> ChunkState (the Arc'd objects)
    locks,                   \* handle -> [writer, readers] of its RwLock
    chunk_update_listeners,  \* World.chunk_update_listeners: senders, by channel
    channels,                \* channel -> [queue, closed, owed, born]
    th,                      \* per thread: position and locals of its call
    last,                    \* the call that returned in the latest step
    views,                   \* per thread: Option of the WorldView it owns
    lastSet,                 \* voxel -> Option of the id set_block wrote last
    written,                 \* handle -> voxel -> Option of the id written last
                             \*   under the lock of that ChunkState
    nops,                    \* calls started
    items,                   \* the QueuedItems made, in order of creation
    tasks,                   \* tasks[k]: the task spawned for items[k]
    chunk_state,             \* Option of a ChunkState used on its own
    coord,                   \* Option of a coordinate split into chunk and local
    chunks_lock,             \* [writer, readers] of the RwLock of World.chunks
    collision_chunks,        \* PhysicsEnvironment.collision_chunks: chunk -> QueuedItem
    tessellated_chunks,      \* Tessellator.tessellated_chunks: chunk -> lod -> QueuedItem
    handler                  \* the task of PhysicsEnvironment::handle_chunk_updates

vars == <<chunks, heap, locks, chunk_update_listeners, channels, th, last, views,
          lastSet, written, nops, items, tasks, chunk_state, coord, chunks_lock,
          collision_chunks, tessellated_chunks, handler>>

Idle == [ pc |-> "idle", who |-> NoThread, op |-> "none", x |-> 0, y |-> 0, z |-> 0, block_id |-> 0,
          chunk |-> 0, box |-> <<>>, chunk_arcs |-> <<>>, probe |-> <<>>,
          guards |-> <<>>, data |-> <<>>, i |-> 0, sends |-> <<>>, snap |-> <<>>,
          clean |-> TRUE, old |-> <<>>, nb |-> <<>>, seen |-> <<>>, ret |-> <<>> ]

Init ==
    /\ chunks = <<>>
    /\ heap = <<>>
    /\ locks = <<>>
    /\ chunk_update_listeners = <<>>
    /\ channels = <<>>
    /\ th = [t \in Threads |-> Idle]
    /\ last = Idle
    /\ views = [t \in Threads |-> None]
    /\ lastSet = [v \in Voxels |-> None]
    /\ written = <<>>
    /\ nops = 0
    /\ items = <<>>
    /\ tasks = <<>>
    /\ chunk_state = None
    /\ coord = None
    /\ chunks_lock = [writer |-> NoThread, readers |-> {}]
    /\ collision_chunks = <<>>
    /\ tessellated_chunks = [cubes |-> {}, gone |-> {}, lods |-> <<>>]
    /\ handler = [pc |-> "none", rx |-> 0, msg |-> <<>>, chunk |-> <<>>,
                  tess |-> [pc |-> "none", msg |-> <<>>, lods |-> {}]]

Free == [writer |-> NoThread, readers |-> {}]

\* RwLock: a writer excludes everyone, readers exclude writers.
CanRead(h) == locks[h].writer = NoThread
\* A write lock granted while readers hold the lock.
CanWrite_ignoring_readers(h) == locks[h].writer = NoThread
CanWrite(h) == locks[h].writer = NoThread /\ locks[h].readers = {}

MayCall(t) == th[t].pc = "idle" /\ nops < MaxOps

\* A call of thread t in its first position.
Frame(t, op, pc) == [Idle EXCEPT !.who = t, !.op = op, !.pc = pc]

\* last is the call that returned in the latest step, if that step was a
\* return.
NoReturn == last' = Idle

\* The call of thread t returns: its frame, as it is on return, becomes last.
Return(tt, t, frame) ==
    /\ th' = [tt EXCEPT ![t] = Idle]
    /\ last' = [frame EXCEPT !.pc = "done"]

\* The cuboid xs..=xe, ys..=ye, zs..=ze in the order of the nested loops
\* (x outermost, z innermost), as a sequence of coordinates.
CuboidSeq(b) ==
    LET nx == b[2] - b[1] + 1
        ny == b[4] - b[3] + 1
        nz == b[6] - b[5] + 1
    IN  [k \in 1 .. (nx * ny * nz) |->
            << b[1] + ((k - 1) \div (ny * nz)),
               b[3] + (((k - 1) \div nz) % ny),
               b[5] + ((k - 1) % nz) >>]

ChunkOf(v) == << div_euclid(v[1], CHUNK_SIZE_X),
                 div_euclid(v[2], CHUNK_SIZE_X),
                 div_euclid(v[3], CHUNK_SIZE_X) >>
LocalOf(v) == << rem_euclid(v[1], CHUNK_SIZE_X),
                 rem_euclid(v[2], CHUNK_SIZE_X),
                 rem_euclid(v[3], CHUNK_SIZE_X) >>

\* ------------------------------------------------------------------------
\* World::ensure_chunk, one critical section under the map's write lock:
\* the handle in the map, or a new Empty ChunkState inserted for c.
\* The result is <<chunks', heap', locks', handle>>.
World_ensure_chunk(c) ==
    IF c \in DOMAIN chunks
    THEN <<chunks, heap, locks, chunks[c]>>
    ELSE LET h == Len(heap) + 1
         IN  << (c :> h) @@ chunks,
                Append(heap, ChunkState_new(c[1], c[2], c[3])),
                Append(locks, Free),
                h >>

\* A generation whose samples depend on the thread that runs it.
FormStep_by_thread(t, next) ==
    LET h == th[t].chunk
        shifted == ChunkState_ensure_formed([heap[h] EXCEPT !.x = @ + t])
    IN  /\ CanWrite(h)
        /\ heap' = [heap EXCEPT ![h] = [shifted EXCEPT !.x = heap[h].x]]
        /\ IF next.pc = "done"
           THEN Return(th, t, next)
           ELSE th' = [th EXCEPT ![t] = next] /\ NoReturn
        /\ UNCHANGED <<chunks, locks, chunk_update_listeners, channels, views, lastSet,
                       written, nops, items, tasks, chunk_state, coord, chunks_lock,
                   collision_chunks, tessellated_chunks, handler>>

\* A get_chunk that takes the chunk's write lock and forms nothing.
FormStep_unformed(t, next) ==
    LET h == th[t].chunk
    IN  /\ CanWrite(h)
        /\ heap' = heap
        /\ IF next.pc = "done"
           THEN Return(th, t, next)
           ELSE th' = [th EXCEPT ![t] = next] /\ NoReturn
        /\ UNCHANGED <<chunks, locks, chunk_update_listeners, channels, views, lastSet,
                       written, nops, items, tasks, chunk_state, coord, chunks_lock,
                   collision_chunks, tessellated_chunks, handler>>

\* The second half of World::get_chunk: ensure_formed under the chunk's
\* write lock, taken and released in the one statement.
FormStep(t, next) ==
    LET h == th[t].chunk
    IN  /\ CanWrite(h)
        /\ heap' = [heap EXCEPT ![h] = ChunkState_ensure_formed(heap[h])]
        /\ IF next.pc = "done"
           THEN Return(th, t, next)
           ELSE th' = [th EXCEPT ![t] = next] /\ NoReturn
        /\ UNCHANGED <<chunks, locks, chunk_update_listeners, channels, views, lastSet,
                       written, nops, items, tasks, chunk_state, coord,
                   chunks_lock,
                   collision_chunks, tessellated_chunks, handler>>

\* A new ChunkState has no write yet.
Grow(hp) ==
    [h \in 1 .. Len(hp) |->
        IF h <= Len(written) THEN written[h] ELSE [v \in Voxels |-> None]]

\* World::ensure_chunk called on its own.
EnsureChunkCall(t, c) ==
    /\ MayCall(t)
    /\ LET r == World_ensure_chunk(c)
       IN  /\ chunks' = r[1]
           /\ heap' = r[2]
           /\ written' = Grow(r[2])
           /\ locks' = r[3]
           /\ Return(th, t, [Frame(t, "ensure_chunk", "done") EXCEPT
                                 !.x = c[1], !.y = c[2], !.z = c[3],
                                 !.chunk = r[4], !.ret = Some(r[4])])
    /\ nops' = nops + 1
    /\ UNCHANGED <<chunk_update_listeners, channels, views, lastSet, items, tasks, chunk_state,
                   coord,
                   chunks_lock,
                   collision_chunks, tessellated_chunks, handler>>

\* World::get_chunk: ensure_chunk ...
GetChunkCall(t, c) ==
    /\ MayCall(t)
    /\ LET r == World_ensure_chunk(c)
       IN  /\ chunks' = r[1]
           /\ heap' = r[2]
           /\ written' = Grow(r[2])
           /\ locks' = r[3]
           /\ th' = [th EXCEPT ![t] = [Frame(t, "get_chunk", "gc_form") EXCEPT
                                        !.x = c[1], !.y = c[2], !.z = c[3],
                                        !.chunk = r[4]]]
    /\ nops' = nops + 1
    /\ UNCHANGED <<chunk_update_listeners, channels, views, lastSet, items, tasks, chunk_state,
                   coord,
                   chunks_lock,
                   collision_chunks, tessellated_chunks, handler>> /\ NoReturn

\* A get_chunk that returns the handle without forming the chunk.
GetChunkForm_unformed(t) ==
    /\ th[t].pc = "gc_form"
    /\ Return(th, t, [th[t] EXCEPT !.pc = "done", !.ret = Some(th[t].chunk)])
    /\ UNCHANGED <<chunks, heap, locks, chunk_update_listeners, channels, views, lastSet,
                   written, nops, items, tasks, chunk_state, coord, chunks_lock,
                   collision_chunks, tessellated_chunks, handler>>

\* ... then ensure_formed, and the handle is returned.
GetChunkForm(t) ==
    /\ th[t].pc = "gc_form"
    /\ FormStep(t, [th[t] EXCEPT !.pc = "done", !.ret = Some(th[t].chunk)])

\* World::get_block: the chunk of the voxel through get_chunk ...
GetBlockCall(t, v) ==
    /\ MayCall(t)
    /\ LET r == World_ensure_chunk(ChunkOf(v))
       IN  /\ chunks' = r[1]
           /\ heap' = r[2]
           /\ written' = Grow(r[2])
           /\ locks' = r[3]
           /\ th' = [th EXCEPT ![t] = [Frame(t, "get_block", "get_form") EXCEPT
                                        !.x = v[1], !.y = v[2], !.z = v[3],
                                        !.chunk = r[4]]]
    /\ nops' = nops + 1
    /\ UNCHANGED <<chunk_update_listeners, channels, views, lastSet, items, tasks, chunk_state,
                   coord,
                   chunks_lock,
                   collision_chunks, tessellated_chunks, handler>> /\ NoReturn

GetBlockForm(t) ==
    /\ th[t].pc = "get_form"
    /\ FormStep(t, [th[t] EXCEPT !.pc = "get_read"])

\* ... then the read of the local voxel under the chunk's read lock.
GetBlockRead(t) ==
    LET h == th[t].chunk
        l == LocalOf(<<th[t].x, th[t].y, th[t].z>>)
    IN  /\ th[t].pc = "get_read"
        /\ CanRead(h)
        /\ Return(th, t, [th[t] EXCEPT
                             !.ret = Some(ChunkState_get_block(heap[h], l[1], l[2], l[3]))])
        /\ UNCHANGED <<chunks, heap, locks, chunk_update_listeners, channels, views,
                       lastSet, written, nops, items, tasks, chunk_state, coord,
                   chunks_lock,
                   collision_chunks, tessellated_chunks, handler>>

\* ------------------------------------------------------------------------
\* World::set_block: the chunk through get_chunk ...
SetBlockCall(t, v, block_id) ==
    /\ MayCall(t)
    /\ LET r == World_ensure_chunk(ChunkOf(v))
       IN  /\ chunks' = r[1]
           /\ heap' = r[2]
           /\ written' = Grow(r[2])
           /\ locks' = r[3]
           /\ th' = [th EXCEPT ![t] = [Frame(t, "set_block", "set_form") EXCEPT
                                        !.x = v[1], !.y = v[2], !.z = v[3],
                                        !.block_id = block_id, !.chunk = r[4]]]
    /\ nops' = nops + 1
    /\ UNCHANGED <<chunk_update_listeners, channels, views, lastSet, items, tasks, chunk_state,
                   coord,
                   chunks_lock,
                   collision_chunks, tessellated_chunks, handler>> /\ NoReturn

SetBlockForm(t) ==
    /\ th[t].pc = "set_form"
    /\ FormStep(t, [th[t] EXCEPT !.pc = "set_write"])

\* Every view under construction or finished has now seen a mutation.
Dirty(tt) ==
    [u \in Threads |->
        IF tt[u].op = "from_range" /\ tt[u].pc # "done"
        THEN [tt[u] EXCEPT !.clean = FALSE]
        ELSE tt[u]]
DirtyViews ==
    [u \in Threads |->
        IF views[u] = None THEN None
        ELSE Some([Unwrap(views[u]) EXCEPT !.fresh = FALSE])]

\* ... then the chunk's write lock is taken and the local voxel written.
\* The guard lives to the end of the function.
SetBlockWrite(t) ==
    LET h == th[t].chunk
        v == <<th[t].x, th[t].y, th[t].z>>
        l == LocalOf(v)
    IN  /\ th[t].pc = "set_write"
        /\ CanWrite(h)
        /\ locks' = [locks EXCEPT ![h].writer = t]
        /\ heap' = [heap EXCEPT
                      ![h] = ChunkState_set_block(heap[h], l[1], l[2], l[3], th[t].block_id)]
        /\ lastSet' = [lastSet EXCEPT ![v] = Some(th[t].block_id)]
        /\ written' = [written EXCEPT ![h][v] = Some(th[t].block_id)]
        /\ channels' = [c \in DOMAIN channels |->
                          IF channels[c].closed THEN channels[c]
                          ELSE [channels[c] EXCEPT !.owed = @ + 1]]
        /\ th' = [Dirty(th) EXCEPT
                    ![t].pc = "set_notify", ![t].i = 1,
                    ![t].old = Some(ChunkState_get_block(heap[h], l[1], l[2], l[3]))]
        /\ views' = DirtyViews
        /\ UNCHANGED <<chunks, chunk_update_listeners, nops, items, tasks, chunk_state,
                       coord,
                   chunks_lock,
                   collision_chunks, tessellated_chunks, handler>> /\ NoReturn

\* The message of a set_block: the chunk coordinate computed at its entry.
ChunkUpdateMessage(v) == ChunkOf(v)

\* A loop over the listeners that gives up at the first failed send.
SetBlockNotify_stop_on_closed(t) ==
    LET ch == chunk_update_listeners[th[t].i]
        msg == ChunkUpdateMessage(<<th[t].x, th[t].y, th[t].z>>)
    IN  /\ th[t].pc = "set_notify"
        /\ th[t].i <= Len(chunk_update_listeners)
        /\ channels' = IF channels[ch].closed
                       THEN channels
                       ELSE [channels EXCEPT ![ch].queue = Append(@, msg)]
        /\ th' = [th EXCEPT
                    ![t].i = IF channels[ch].closed
                             THEN Len(chunk_update_listeners) + 1 ELSE @ + 1,
                    ![t].sends = Append(@, <<ch, msg>>)]
        /\ UNCHANGED <<chunks, heap, locks, chunk_update_listeners, views, lastSet,
                       written, nops, items, tasks, chunk_state, coord,
                   chunks_lock,
                   collision_chunks, tessellated_chunks, handler>> /\ NoReturn

\* One iteration of the loop over the listeners: an unbounded send, which
\* fails (and is ignored) when the receiver is closed.
SetBlockNotify(t) ==
    LET ch == chunk_update_listeners[th[t].i]
        msg == ChunkUpdateMessage(<<th[t].x, th[t].y, th[t].z>>)
    IN  /\ th[t].pc = "set_notify"
        /\ th[t].i <= Len(chunk_update_listeners)
        /\ channels' = IF channels[ch].closed
                       THEN channels
                       ELSE [channels EXCEPT ![ch].queue = Append(@, msg)]
        /\ th' = [th EXCEPT ![t].i = @ + 1, ![t].sends = Append(@, <<ch, msg>>)]
        /\ UNCHANGED <<chunks, heap, locks, chunk_update_listeners, views, lastSet,
                       written, nops, items, tasks, chunk_state, coord,
                   chunks_lock,
                   collision_chunks, tessellated_chunks, handler>> /\ NoReturn

\* The loop is over: the function returns and the write guard is dropped.
SetBlockReturn(t) ==
    /\ th[t].pc = "set_notify"
    /\ th[t].i > Len(chunk_update_listeners)
    /\ locks' = [locks EXCEPT ![th[t].chunk].writer = NoThread]
    /\ Return(th, t, th[t])
    /\ UNCHANGED <<chunks, heap, chunk_update_listeners, channels, views, lastSet,
                   written, nops, items, tasks, chunk_state, coord,
                   chunks_lock,
                   collision_chunks, tessellated_chunks, handler>>

\* ------------------------------------------------------------------------
\* A registration that puts the new sender in front of the others.
Register_in_front ==
    /\ \A t \in Threads : th[t].pc = "idle"
    /\ \A c \in DOMAIN channels : channels[c].queue = <<>>
    /\ Len(chunk_update_listeners) < MaxListeners
    /\ channels' = Append(channels,
                     [queue |-> <<>>, closed |-> FALSE, owed |-> 0, born |-> nops])
    /\ chunk_update_listeners' = <<Len(channels) + 1>> \o chunk_update_listeners
    /\ UNCHANGED <<chunks, heap, locks, th, views, lastSet, written, nops, items, tasks,
                   chunk_state, coord,
                   chunks_lock,
                   collision_chunks, tessellated_chunks, handler>> /\ NoReturn

\* World::register_chunk_update_listener takes &mut self: no call is running
\* and no queued message holds a clone of the Arc<World>.  Of a channel,
\* owed counts the writes made since its registration whose message the
\* receiver has not taken yet, and born is the number of calls started
\* before the registration.
Register ==
    /\ \A t \in Threads : th[t].pc = "idle"
    /\ \A c \in DOMAIN channels : channels[c].queue = <<>>
    /\ Len(chunk_update_listeners) < MaxListeners
    /\ channels' = Append(channels,
                     [queue |-> <<>>, closed |-> FALSE, owed |-> 0, born |-> nops])
    /\ chunk_update_listeners' = Append(chunk_update_listeners, Len(channels) + 1)
    /\ UNCHANGED <<chunks, heap, locks, th, views, lastSet, written, nops, items, tasks,
                   chunk_state, coord,
                   chunks_lock,
                   collision_chunks, tessellated_chunks, handler>> /\ NoReturn

\* The subscriber closes or drops its receiver: queued messages are dropped
\* (and the bookkeeping of the channel with them).
CloseReceiver(c) ==
    /\ c \in DOMAIN channels
    /\ ~channels[c].closed
    /\ channels' = [channels EXCEPT
                       ![c] = [queue |-> <<>>, closed |-> TRUE, owed |-> 0, born |-> 0]]
    /\ UNCHANGED <<chunks, heap, locks, chunk_update_listeners, th, views, lastSet,
                   written, nops, items, tasks, chunk_state, coord,
                   chunks_lock,
                   collision_chunks, tessellated_chunks, handler>> /\ NoReturn

\* The subscriber receives the oldest message.
Recv(c) ==
    /\ c \in DOMAIN channels
    /\ ~channels[c].closed
    /\ channels[c].queue # <<>>
    /\ channels' = [channels EXCEPT ![c].queue = Tail(@), ![c].owed = @ - 1]
    /\ UNCHANGED <<chunks, heap, locks, chunk_update_listeners, th, views, lastSet,
                   written, nops, items, tasks, chunk_state, coord,
                   chunks_lock,
                   collision_chunks, tessellated_chunks, handler>> /\ NoReturn

\* ------------------------------------------------------------------------
\* Neighborhood: [data, size, offset], data the write guards (handles) by
\* array index, from 1.  arr_index is computed in i32 and cast to usize: a
\* negative value becomes a number above every Vec length, so the bounds
\* test passes exactly for 0 <= arr_index < data.len().
\* An index with the strides of the x and z axes exchanged.
Neighborhood_arr_index_swapped(nb, x, y, z) ==
    LET dx == div_euclid(x, CHUNK_SIZE_X) + nb.offset[1]
        dy == div_euclid(y, CHUNK_SIZE_X) + nb.offset[2]
        dz == div_euclid(z, CHUNK_SIZE_X) + nb.offset[3]
        size == nb.size
        offset == nb.size \div 2
    IN  (dz + offset) * size * size + (dy + offset) * size + (dx + offset)

Neighborhood_arr_index(nb, x, y, z) ==
    LET dx == div_euclid(x, CHUNK_SIZE_X) + nb.offset[1]
        dy == div_euclid(y, CHUNK_SIZE_X) + nb.offset[2]
        dz == div_euclid(z, CHUNK_SIZE_X) + nb.offset[3]
        size == nb.size
        offset == nb.size \div 2
    IN  (dx + offset) * size * size + (dy + offset) * size + (dz + offset)

\* get_chunk and get_chunk_immutable: Some(guard), or None for the panic.
Neighborhood_get_chunk(nb, x, y, z) ==
    LET arr_index == Neighborhood_arr_index(nb, x, y, z)
    IN  IF arr_index >= 0 /\ arr_index < Len(nb.data)
        THEN Some(nb.data[arr_index + 1])
        ELSE None

\* ------------------------------------------------------------------------
\* World::ensure_chunks, first pass: the probe under the map's read lock.
Probe(c) == <<c, IF c \in DOMAIN chunks THEN Some(chunks[c]) ELSE None>>

EnsureChunksCall(t, r) ==
    /\ MayCall(t)
    /\ th' = [th EXCEPT ![t] = [Frame(t, "ensure_chunks", "ecs_insert") EXCEPT
                                 !.box = r,
                                 !.probe = [k \in DOMAIN CuboidSeq(r) |->
                                              Probe(CuboidSeq(r)[k])]]]
    /\ nops' = nops + 1
    /\ UNCHANGED <<chunks, heap, locks, chunk_update_listeners, channels, views,
                   lastSet, written, items, tasks, chunk_state, coord,
                   chunks_lock,
                   collision_chunks, tessellated_chunks, handler>> /\ NoReturn

\* Second pass under the map's write lock: every coordinate the probe missed
\* gets a new ChunkState, inserted without a second lookup.
\* The result is <<chunks', heap', locks', handles>>.
RECURSIVE InsertMissing(_, _, _, _, _)
InsertMissing(probe, m, hp, lk, acc) ==
    IF probe = <<>> THEN <<m, hp, lk, acc>>
    ELSE LET c == Head(probe)[1]
             found == Head(probe)[2]
         IN  IF IsSome(found)
             THEN InsertMissing(Tail(probe), m, hp, lk, Append(acc, Unwrap(found)))
             ELSE LET h == Len(hp) + 1
                  IN  InsertMissing(Tail(probe),
                                    (c :> h) @@ m,
                                    Append(hp, ChunkState_new(c[1], c[2], c[3])),
                                    Append(lk, Free),
                                    Append(acc, h))

World_ensure_chunks_insert(probe) == InsertMissing(probe, chunks, heap, locks, <<>>)

\* The voxel's chunk has a new map entry: its contents are gone.
Replaced(m, v) == ChunkOf(v) \in DOMAIN chunks /\ m[ChunkOf(v)] # chunks[ChunkOf(v)]

EnsureChunksInsert(t) ==
    /\ th[t].pc = "ecs_insert"
    /\ LET r == World_ensure_chunks_insert(th[t].probe)
           hit == \E v \in Voxels : Replaced(r[1], v)
       IN  /\ chunks' = r[1]
           /\ heap' = r[2]
           /\ written' = Grow(r[2])
           /\ locks' = r[3]
           /\ Return(IF hit THEN Dirty(th) ELSE th, t,
                     [th[t] EXCEPT !.chunk_arcs = r[4], !.ret = Some(r[4])])
           /\ views' = IF hit THEN DirtyViews ELSE views
    /\ UNCHANGED <<chunk_update_listeners, channels, lastSet, nops, items, tasks, chunk_state,
                   coord,
                   chunks_lock,
                   collision_chunks, tessellated_chunks, handler>>

\* ------------------------------------------------------------------------
\* WorldView::from_range
SizeOf(b) == <<b[2] - b[1] + 1, b[4] - b[3] + 1, b[6] - b[5] + 1>>
TotalBlocks(b) == SizeOf(b)[1] * SizeOf(b)[2] * SizeOf(b)[3]

\* The covering chunk coordinates, chunk_start..=chunk_end on each axis.
CoveringRange(b) ==
    << div_euclid(b[1], CHUNK_SIZE_X), div_euclid(b[2], CHUNK_SIZE_X),
       div_euclid(b[3], CHUNK_SIZE_X), div_euclid(b[4], CHUNK_SIZE_X),
       div_euclid(b[5], CHUNK_SIZE_X), div_euclid(b[6], CHUNK_SIZE_X) >>
Covering(b) == CuboidSeq(CoveringRange(b))

\* chunk_map: chunk coordinate -> Option of its index (from 1) in chunk_arcs.
chunk_map_get(b, c) ==
    IF \E k \in DOMAIN Covering(b) : Covering(b)[k] = c
    THEN Some(CHOOSE k \in DOMAIN Covering(b) : Covering(b)[k] = c)
    ELSE None

\* An index that uses the z size as the y stride.
view_index_zstride(origin, size, x, y, z) ==
    (x - origin[1]) + (y - origin[2]) * size[3] + (z - origin[3]) * size[1] * size[2]

\* Index of the voxel (x, y, z) in the view's data (from 0).
view_index(origin, size, x, y, z) ==
    (x - origin[1]) + (y - origin[2]) * size[1] + (z - origin[3]) * size[1] * size[2]

\* The view is dropped, the data array allocated and the first covering
\* chunk looked up (the first half of the first get_chunk).
FromRangeCall(t, b) ==
    /\ MayCall(t)
    /\ LET r == World_ensure_chunk(Covering(b)[1])
       IN  /\ chunks' = r[1]
           /\ heap' = r[2]
           /\ written' = Grow(r[2])
           /\ locks' = r[3]
           /\ th' = [th EXCEPT ![t] = [Frame(t, "from_range", "fr_form") EXCEPT
                                        !.box = b, !.chunk = r[4], !.i = 1,
                                        !.data = [k \in 1 .. TotalBlocks(b) |-> 0]]]
    /\ views' = [views EXCEPT ![t] = None]
    /\ nops' = nops + 1
    /\ UNCHANGED <<chunk_update_listeners, channels, lastSet, items, tasks, chunk_state,
                   coord,
                   chunks_lock,
                   collision_chunks, tessellated_chunks, handler>> /\ NoReturn

\* get_chunk of the i-th covering chunk: ensure_chunk ...
FromRangeEnsure(t) ==
    /\ th[t].pc = "fr_ensure"
    /\ LET r == World_ensure_chunk(Covering(th[t].box)[th[t].i])
       IN  /\ chunks' = r[1]
           /\ heap' = r[2]
           /\ written' = Grow(r[2])
           /\ locks' = r[3]
           /\ th' = [th EXCEPT ![t].pc = "fr_form", ![t].chunk = r[4]]
    /\ UNCHANGED <<chunk_update_listeners, channels, views, lastSet, nops, items, tasks,
                   chunk_state, coord,
                   chunks_lock,
                   collision_chunks, tessellated_chunks, handler>> /\ NoReturn

\* ... then ensure_formed; the handle is pushed onto chunk_arcs.
FromRangeForm(t) ==
    /\ th[t].pc = "fr_form"
    /\ \E next \in {[th[t] EXCEPT
                        !.chunk_arcs = Append(@, th[t].chunk),
                        !.pc = IF th[t].i < Len(Covering(th[t].box))
                               THEN "fr_ensure" ELSE "fr_lock",
                        !.i = @ + 1]} :
          FormStep(t, next)

\* One iteration of the loop that takes the read locks, in chunk_arcs order.
\* snap remembers the chunk's cells at the moment its lock is taken.
FromRangeLock(t) ==
    LET k == Len(th[t].guards) + 1
        h == th[t].chunk_arcs[k]
    IN  /\ th[t].pc = "fr_lock"
        /\ CanRead(h)
        /\ locks' = [locks EXCEPT ![h].readers = @ \cup {t}]
        /\ th' = [th EXCEPT ![t].guards = Append(@, h),
                            ![t].snap = Append(@, heap[h].data),
                            ![t].pc = IF k < Len(th[t].chunk_arcs) THEN "fr_lock"
                                      ELSE "fr_copy",
                            ![t].i = 1]
        /\ UNCHANGED <<chunks, heap, chunk_update_listeners, channels, views, lastSet,
                       written, nops, items, tasks, chunk_state, coord,
                   chunks_lock,
                   collision_chunks, tessellated_chunks, handler>> /\ NoReturn

\* One iteration of the copy loop: the i-th voxel of the box in x, y, z loop
\* order, read through the guard of its chunk.  The voxel v, the result idx
\* of the lookup in chunk_map and the block_id read are computed once.
FromRangeCopy(t) ==
    /\ th[t].pc = "fr_copy"
    /\ \E v \in {CuboidSeq(th[t].box)[th[t].i]} :
       \E idx \in {chunk_map_get(th[t].box, ChunkOf(v))} :
       \E block_id \in {IF IsSome(idx)
                         THEN ChunkState_get_block(heap[th[t].guards[Unwrap(idx)]],
                                  LocalOf(v)[1], LocalOf(v)[2], LocalOf(v)[3])
                         ELSE 0} :
       LET b == th[t].box
           at == view_index(<<b[1], b[3], b[5]>>, SizeOf(b), v[1], v[2], v[3])
       IN
        /\ th' = [th EXCEPT
                    ![t].data = IF IsSome(idx) THEN [@ EXCEPT ![at + 1] = block_id] ELSE @,
                    ![t].pc = IF IsSome(idx) /\ block_id = Panic THEN "panicked"
                              ELSE IF th[t].i < TotalBlocks(b) THEN "fr_copy"
                              ELSE "fr_ret",
                    ![t].i = @ + 1]
        /\ locks' = IF IsSome(idx) /\ block_id = Panic
                    THEN [h \in DOMAIN locks |->
                            [locks[h] EXCEPT !.readers = @ \ {t}]]
                    ELSE locks
        /\ UNCHANGED <<chunks, heap, chunk_update_listeners, channels, views, lastSet,
                       written, nops, items, tasks, chunk_state, coord,
                   chunks_lock,
                   collision_chunks, tessellated_chunks, handler>> /\ NoReturn

\* A from_range whose guards outlive the call.
FromRangeReturn_keeping_guards(t) ==
    LET b == th[t].box
    IN  /\ th[t].pc = "fr_ret"
        /\ views' = [views EXCEPT ![t] =
                        Some([ data |-> th[t].data,
                               origin |-> <<b[1], b[3], b[5]>>,
                               size |-> SizeOf(b),
                               fresh |-> th[t].clean,
                               arcs |-> th[t].chunk_arcs,
                               snap |-> th[t].snap ])]
        /\ Return(th, t, [th[t] EXCEPT !.guards = <<>>, !.data = <<>>, !.snap = <<>>])
        /\ UNCHANGED <<chunks, heap, locks, chunk_update_listeners, channels, lastSet,
                       written, nops, items, tasks, chunk_state, coord, chunks_lock,
                   collision_chunks, tessellated_chunks, handler>>

\* The guards are dropped and the view returned.
FromRangeReturn(t) ==
    LET b == th[t].box
    IN  /\ th[t].pc = "fr_ret"
        /\ locks' = [h \in DOMAIN locks |-> [locks[h] EXCEPT !.readers = @ \ {t}]]
        /\ views' = [views EXCEPT ![t] =
                        Some([ data |-> th[t].data,
                               origin |-> <<b[1], b[3], b[5]>>,
                               size |-> SizeOf(b),
                               fresh |-> th[t].clean,
                               arcs |-> th[t].chunk_arcs,
                               snap |-> th[t].snap ])]
        /\ Return(th, t, [th[t] EXCEPT !.guards = <<>>, !.data = <<>>, !.snap = <<>>])
        /\ UNCHANGED <<chunks, heap, chunk_update_listeners, channels, lastSet, written,
                       nops, items, tasks, chunk_state, coord,
                   chunks_lock,
                   collision_chunks, tessellated_chunks, handler>>

\* ------------------------------------------------------------------------
\* What World::get_block(x, y, z) returns when it runs alone from the current
\* state: ensure_chunk, ensure_formed, then the read.
World_get_block(x, y, z) ==
    LET c == ChunkOf(<<x, y, z>>)
        l == LocalOf(<<x, y, z>>)
        cs == IF c \in DOMAIN chunks THEN heap[chunks[c]]
              ELSE ChunkState_new(c[1], c[2], c[3])
    IN  ChunkState_get_block(ChunkState_ensure_formed(cs), l[1], l[2], l[3])

\* ------------------------------------------------------------------------
\* WorldView queries.
WorldView_contains(view, x, y, z) ==
    /\ x >= view.origin[1] /\ x < view.origin[1] + view.size[1]
    /\ y >= view.origin[2] /\ y < view.origin[2] + view.size[2]
    /\ z >= view.origin[3] /\ z < view.origin[3] + view.size[3]

WorldView_bounds(view) ==
    << view.origin,
       << view.origin[1] + view.size[1] - 1,
          view.origin[2] + view.size[2] - 1,
          view.origin[3] + view.size[3] - 1 >> >>

\* Indexing the data array panics when the index is outside it.
WorldView_index(view, index) ==
    IF index >= 0 /\ index < Len(view.data) THEN view.data[index + 1] ELSE Panic

\* A view that reads the world instead of its own copy.
WorldView_get_block_live(view, x, y, z) ==
    IF \/ x < view.origin[1] \/ x >= view.origin[1] + view.size[1]
       \/ y < view.origin[2] \/ y >= view.origin[2] + view.size[2]
       \/ z < view.origin[3] \/ z >= view.origin[3] + view.size[3]
    THEN 0
    ELSE World_get_block(x, y, z)

\* A bounds check that forgets the upper side of the x axis.
WorldView_get_block_no_upper_x(view, x, y, z) ==
    IF \/ x < view.origin[1]
       \/ y < view.origin[2] \/ y >= view.origin[2] + view.size[2]
       \/ z < view.origin[3] \/ z >= view.origin[3] + view.size[3]
    THEN 0
    ELSE WorldView_index(view, view_index(view.origin, view.size, x, y, z))

WorldView_get_block(view, x, y, z) ==
    IF \/ x < view.origin[1] \/ x >= view.origin[1] + view.size[1]
       \/ y < view.origin[2] \/ y >= view.origin[2] + view.size[2]
       \/ z < view.origin[3] \/ z >= view.origin[3] + view.size[3]
    THEN 0
    ELSE WorldView_index(view, view_index(view.origin, view.size, x, y, z))

\* iter_blocks: x outermost, z innermost, each block through get_block.
WorldView_iter_blocks(view) ==
    [k \in 1 .. (view.size[1] * view.size[2] * view.size[3]) |->
        LET x == view.origin[1] + ((k - 1) \div (view.size[2] * view.size[3]))
            y == view.origin[2] + (((k - 1) \div view.size[3]) % view.size[2])
            z == view.origin[3] + ((k - 1) % view.size[3])
        IN  <<x, y, z, WorldView_get_block(view, x, y, z)>>]

\* The owner of a finished view asks it for one coordinate.
ViewGetBlockCall(t, q) ==
    /\ MayCall(t)
    /\ IsSome(views[t])
    /\ Return(th, t, [Frame(t, "view_get_block", "done") EXCEPT
                         !.x = q[1], !.y = q[2], !.z = q[3],
                         !.ret = Some(WorldView_get_block(Unwrap(views[t]),
                                                          q[1], q[2], q[3]))])
    /\ nops' = nops + 1
    /\ UNCHANGED <<chunks, heap, locks, chunk_update_listeners, channels, views,
                   lastSet, written, items, tasks, chunk_state, coord,
                   chunks_lock,
                   collision_chunks, tessellated_chunks, handler>>

\* ------------------------------------------------------------------------
\* The world under concurrent calls, without listeners.
\* ------------------------------------------------------------------------
\* The chunk coordinates of the cube of radius r around c, in the order of
\* the index formula of Neighborhood::get_chunk.
NbCube(c, r) == CuboidSeq(<<c[1] - r, c[1] + r, c[2] - r, c[2] + r, c[3] - r, c[3] + r>>)

\* The construction of a Neighborhood is not in the repository.  It is taken
\* from the description of the component: built over a centre chunk and a
\* radius, it gets every chunk of the cube as World::get_chunk does (created
\* if absent, formed), holds the write lock of each and keeps the guards in
\* the order of the index formula, with the offset that brings the centre
\* chunk to (0, 0, 0).  The cube's coordinates are distinct, so one probe of
\* the map stands for the lookups of the single ensure_chunk calls.
\* The result is <<chunks', heap', locks', neighborhood>>.
Neighborhood_new(t, c, r) ==
    LET cube == NbCube(c, r)
        e == InsertMissing([k \in DOMAIN cube |-> Probe(cube[k])], chunks, heap, locks, <<>>)
        hs == { e[4][k] : k \in DOMAIN e[4] }
    IN  << e[1],
           [h \in DOMAIN e[2] |->
               IF h \in hs THEN ChunkState_ensure_formed(e[2][h]) ELSE e[2][h]],
           [h \in DOMAIN e[3] |->
               IF h \in hs THEN [e[3][h] EXCEPT !.writer = t] ELSE e[3][h]],
           [data |-> e[4], size |-> 2 * r + 1, offset |-> <<-c[1], -c[2], -c[3]>>] >>

NbNew(t, c, r) ==
    /\ MayCall(t)
    /\ \A k \in DOMAIN NbCube(c, r) :
          NbCube(c, r)[k] \in DOMAIN chunks => CanWrite(chunks[NbCube(c, r)[k]])
    /\ LET n == Neighborhood_new(t, c, r)
       IN  /\ chunks' = n[1]
           /\ heap' = n[2]
           /\ written' = Grow(n[2])
           /\ locks' = n[3]
           /\ th' = [th EXCEPT ![t] = [Frame(t, "neighborhood", "nb_held") EXCEPT
                                        !.nb = Some(n[4])]]
    /\ nops' = nops + 1
    /\ UNCHANGED <<chunk_update_listeners, channels, views, lastSet, items, tasks, chunk_state,
                   coord,
                   chunks_lock,
                   collision_chunks, tessellated_chunks, handler>> /\ NoReturn

\* The world voxel that the cell (l[1], l[2], l[3]) of a chunk state is.
WorldVoxel(cs, l) ==
    << cs.x * CHUNK_SIZE_X + l[1], cs.y * CHUNK_SIZE_X + l[2], cs.z * CHUNK_SIZE_X + l[3] >>

\* A Neighborhood::set_block that tells the listeners of its write.
NbSetBlock_notifying(t, v, block_id) ==
    LET g == Neighborhood_get_chunk(Unwrap(th[t].nb), v[1], v[2], v[3])
        l == LocalOf(v)
        call == [th[t] EXCEPT !.op = "nb_set_block", !.pc = "done",
                              !.x = v[1], !.y = v[2], !.z = v[3], !.block_id = block_id]
    IN  /\ th[t].pc = "nb_held"
        /\ nops < MaxOps
        /\ nops' = nops + 1
        /\ IsSome(g)
        /\ heap' = [heap EXCEPT
                      ![Unwrap(g)] = ChunkState_set_block(heap[Unwrap(g)], l[1], l[2], l[3],
                                                          block_id)]
        /\ channels' = [c \in DOMAIN channels |->
                          IF channels[c].closed THEN channels[c]
                          ELSE [channels[c] EXCEPT
                                  !.queue = Append(@, ChunkUpdateMessage(v))]]
        /\ th' = Dirty(th)
        /\ views' = DirtyViews
        /\ last' = call
        /\ UNCHANGED <<chunks, locks, chunk_update_listeners, lastSet, written, items,
                       tasks, chunk_state, coord, chunks_lock, collision_chunks,
                       tessellated_chunks, handler>>

\* Neighborhood::set_block, by the thread that holds the neighborhood.  A
\* panic ends the thread; the write guards it unwinds through poison their
\* locks, which no later call gets through.
NbSetBlock(t, v, block_id) ==
    LET g == Neighborhood_get_chunk(Unwrap(th[t].nb), v[1], v[2], v[3])
        l == LocalOf(v)
        call == [th[t] EXCEPT !.op = "nb_set_block", !.pc = "done",
                              !.x = v[1], !.y = v[2], !.z = v[3], !.block_id = block_id]
    IN  /\ th[t].pc = "nb_held"
        /\ nops < MaxOps
        /\ nops' = nops + 1
        /\ IF IsSome(g)
           THEN LET h == Unwrap(g)
                    w == WorldVoxel(heap[h], l)
                IN  /\ heap' = [heap EXCEPT
                                  ![h] = ChunkState_set_block(heap[h], l[1], l[2], l[3],
                                                              block_id)]
                    /\ lastSet' = IF w \in Voxels
                                  THEN [lastSet EXCEPT ![w] = Some(block_id)] ELSE lastSet
                    /\ written' = IF w \in Voxels
                                  THEN [written EXCEPT ![h][w] = Some(block_id)] ELSE written
                    /\ th' = Dirty(th)
                    /\ views' = DirtyViews
                    /\ last' = call
           ELSE /\ th' = [th EXCEPT ![t].pc = "panicked"]
                /\ last' = [call EXCEPT !.ret = Some(Panic)]
                /\ UNCHANGED <<heap, lastSet, written, views,
                   collision_chunks, tessellated_chunks, handler>>
        /\ UNCHANGED <<chunks, locks, chunk_update_listeners, channels, items, tasks,
                       chunk_state, coord,
                   chunks_lock,
                   collision_chunks, tessellated_chunks, handler>>

\* Neighborhood::get_block.
NbGetBlock(t, v) ==
    LET g == Neighborhood_get_chunk(Unwrap(th[t].nb), v[1], v[2], v[3])
        l == LocalOf(v)
        block_id == IF IsSome(g)
                    THEN ChunkState_get_block(heap[Unwrap(g)], l[1], l[2], l[3])
                    ELSE Panic
    IN  /\ th[t].pc = "nb_held"
        /\ nops < MaxOps
        /\ nops' = nops + 1
        /\ th' = IF block_id = Panic THEN [th EXCEPT ![t].pc = "panicked"] ELSE th
        /\ last' = [th[t] EXCEPT !.op = "nb_get_block", !.pc = "done",
                                 !.x = v[1], !.y = v[2], !.z = v[3],
                                 !.ret = Some(block_id)]
        /\ UNCHANGED <<chunks, heap, locks, chunk_update_listeners, channels, views,
                       lastSet, written, items, tasks, chunk_state, coord,
                   chunks_lock,
                   collision_chunks, tessellated_chunks, handler>>

\* The neighborhood is dropped: its guards release their locks.
NbDrop(t) ==
    /\ th[t].pc = "nb_held"
    /\ locks' = [h \in DOMAIN locks |->
                    IF locks[h].writer = t THEN [locks[h] EXCEPT !.writer = NoThread]
                    ELSE locks[h]]
    /\ th' = [th EXCEPT ![t] = Idle]
    /\ UNCHANGED <<chunks, heap, chunk_update_listeners, channels, views, lastSet,
                   written, nops, items, tasks, chunk_state, coord,
                   chunks_lock,
                   collision_chunks, tessellated_chunks, handler>> /\ NoReturn

Next ==
    \/ \E t \in Threads, c \in ChunkCoords : EnsureChunkCall(t, c)
    \/ \E t \in Threads, c \in ChunkCoords : GetChunkCall(t, c)
    \/ \E t \in Threads : GetChunkForm(t)
    \/ \E t \in Threads, v \in Voxels : GetBlockCall(t, v)
    \/ \E t \in Threads : GetBlockForm(t)
    \/ \E t \in Threads : GetBlockRead(t)
    \/ \E t \in Threads, v \in Voxels, b \in BlockIds : SetBlockCall(t, v, b)
    \/ \E t \in Threads : SetBlockForm(t)
    \/ \E t \in Threads : SetBlockWrite(t)
    \/ \E t \in Threads : SetBlockReturn(t)
    \/ \E t \in Threads, r \in ChunkRanges : EnsureChunksCall(t, r)
    \/ \E t \in Threads : EnsureChunksInsert(t)
    \/ \E t \in Threads, b \in Boxes : FromRangeCall(t, b)
    \/ \E t \in Threads : FromRangeEnsure(t)
    \/ \E t \in Threads : FromRangeForm(t)
    \/ \E t \in Threads : FromRangeLock(t)
    \/ \E t \in Threads : FromRangeCopy(t)
    \/ \E t \in Threads : FromRangeReturn(t)
    \/ \E t \in Threads, q \in Queries : ViewGetBlockCall(t, q)

Spec == Init /\ [][Next]_vars

\* The world with its listeners: writers, the bulk creation of chunks,
\* registrations and the subscribers' ends of the channels.
NextNotify ==
    \/ \E t \in Threads, v \in NotifyVoxels, b \in BlockIds : SetBlockCall(t, v, b)
    \/ \E t \in Threads : SetBlockForm(t)
    \/ \E t \in Threads : SetBlockWrite(t)
    \/ \E t \in Threads : SetBlockNotify(t)
    \/ \E t \in Threads : SetBlockReturn(t)
    \/ \E t \in Threads, r \in ChunkRanges : EnsureChunksCall(t, r)
    \/ \E t \in Threads : EnsureChunksInsert(t)
    \/ Register
    \/ \E c \in 1 .. MaxListeners : CloseReceiver(c)
    \/ \E c \in 1 .. MaxListeners : Recv(c)

SpecNotify == Init /\ [][NextNotify]_vars

\* Neighborhoods and the direct reads of the world.
NextNeighborhood ==
    \/ \E t \in Threads, c \in NbCentres, r \in NbRadii : NbNew(t, c, r)
    \/ \E t \in Threads, v \in NbVoxels, b \in BlockIds : NbSetBlock(t, v, b)
    \/ \E t \in Threads, v \in NbVoxels : NbGetBlock(t, v)
    \/ \E t \in Threads : NbDrop(t)
    \/ \E t \in Threads, v \in Voxels : GetBlockCall(t, v)
    \/ \E t \in Threads : GetBlockForm(t)
    \/ \E t \in Threads : GetBlockRead(t)

SpecNeighborhood == Init /\ [][NextNeighborhood]_vars

\* ------------------------------------------------------------------------
\* QueuedItem<T> (src/src/utils.rs).  A task is [state, out, runs]: running,
\* finished or panicked, the value its work returns, and how many times the
\* work has run to its end.  The JoinHandle of tasks[h] is h.
WorldVars == <<chunks, heap, locks, chunk_update_listeners, channels, views, lastSet,
               written, chunks_lock>>

\* A test that is true of a running task too.
JoinHandle_is_finished_always(task) == TRUE
\* A test that is true only of a task that returned a value.
JoinHandle_is_finished_ok(task) == task.state = "finished"
\* JoinHandle::is_finished: true once the task has ended, however it ended.
JoinHandle_is_finished(task) == task.state # "running"
\* handle.await on a task that has ended: Ok(out) is Some(out), and the
\* JoinError of a panicked task is None.
JoinHandle_await(task) == IF task.state = "finished" THEN Some(task.out) ELSE None

QueuedItem_Generating(handle) == [tag |-> "Generating", handle |-> handle]
\* A Ready that keeps a default value instead of the element joined.
QueuedItem_Ready_default(item) == [tag |-> "Ready", value |-> 0]
QueuedItem_Ready(item) == [tag |-> "Ready", value |-> item]

\* An enqueue that hands out a Ready item when the work has ended already.
Enqueue_eager(v, quick) ==
    /\ Len(items) < MaxItems
    /\ tasks' = Append(tasks, [state |-> IF quick THEN "finished" ELSE "running",
                               out |-> v,
                               runs |-> IF quick THEN 1 ELSE 0])
    /\ items' = Append(items, IF quick THEN QueuedItem_Ready(v)
                              ELSE QueuedItem_Generating(Len(tasks) + 1))
    /\ UNCHANGED <<WorldVars, th, nops, chunk_state, coord,
                   chunks_lock,
                   collision_chunks, tessellated_chunks, handler>> /\ NoReturn

\* QueuedItem::enqueue: tokio::spawn, which returns at once.  On a runtime
\* with several workers the task may have ended (quick) by then.
Enqueue(v, quick) ==
    /\ Len(items) < MaxItems
    /\ tasks' = Append(tasks, [state |-> IF quick THEN "finished" ELSE "running",
                               out |-> v,
                               runs |-> IF quick THEN 1 ELSE 0])
    /\ items' = Append(items, QueuedItem_Generating(Len(tasks) + 1))
    /\ UNCHANGED <<WorldVars, th, nops, chunk_state, coord,
                   chunks_lock,
                   collision_chunks, tessellated_chunks, handler>> /\ NoReturn

\* The background work comes to its end ...
TaskFinish(h) ==
    /\ h \in DOMAIN tasks
    /\ tasks[h].state = "running"
    /\ tasks' = [tasks EXCEPT ![h].state = "finished", ![h].runs = @ + 1]
    /\ UNCHANGED <<WorldVars, th, nops, items, chunk_state, coord,
                   chunks_lock,
                   collision_chunks, tessellated_chunks, handler>> /\ NoReturn

\* ... or panics.
TaskPanic(h) ==
    /\ h \in DOMAIN tasks
    /\ tasks[h].state = "running"
    /\ tasks' = [tasks EXCEPT ![h].state = "panicked"]
    /\ UNCHANGED <<WorldVars, th, nops, items, chunk_state, coord,
                   chunks_lock,
                   collision_chunks, tessellated_chunks, handler>> /\ NoReturn

\* QueuedItem::get on items[k], up to its await: the match and the test of
\* is_finished.  get takes &mut self: no other get on the item is running.
GetCall(t, k) ==
    LET call == [Frame(t, "queued_get", "q_join") EXCEPT
                    !.i = k, !.seen = <<items[k].tag, tasks[k].state>>]
    IN  /\ MayCall(t)
        /\ k \in DOMAIN items
        /\ \A u \in Threads : ~(th[u].pc = "q_join" /\ th[u].i = k)
        /\ nops' = nops + 1
        /\ IF items[k].tag = "Ready"
           THEN Return(th, t, [call EXCEPT !.ret = Some(items[k].value)])
           ELSE IF JoinHandle_is_finished(tasks[items[k].handle])
           THEN th' = [th EXCEPT ![t] = call] /\ NoReturn
           ELSE Return(th, t, [call EXCEPT !.ret = None])
        /\ UNCHANGED <<WorldVars, items, tasks, chunk_state, coord,
                   chunks_lock,
                   collision_chunks, tessellated_chunks, handler>>

\* handle.await.expect(..): completes when the task has ended.  The item
\* becomes Ready and the stored value is returned, or the JoinError panics.
GetJoin(t) ==
    LET k == th[t].i
        task == tasks[items[k].handle]
        element == JoinHandle_await(task)
    IN  /\ th[t].pc = "q_join"
        /\ task.state # "running"
        /\ IF IsSome(element)
           THEN /\ items' = [items EXCEPT ![k] = QueuedItem_Ready(Unwrap(element))]
                /\ Return(th, t, [th[t] EXCEPT
                                     !.ret = Some(QueuedItem_Ready(Unwrap(element)).value)])
           ELSE /\ items' = items
                /\ th' = [th EXCEPT ![t].pc = "panicked"]
                /\ last' = [th[t] EXCEPT !.pc = "done", !.ret = Some(Panic)]
        /\ UNCHANGED <<WorldVars, nops, tasks, chunk_state, coord,
                   chunks_lock,
                   collision_chunks, tessellated_chunks, handler>>

NextQueued ==
    \/ \E v \in WorkOutputs, quick \in BOOLEAN : Enqueue(v, quick)
    \/ \E h \in 1 .. MaxItems : TaskFinish(h)
    \/ \E h \in 1 .. MaxItems : TaskPanic(h)
    \/ \E t \in Threads, k \in 1 .. MaxItems : GetCall(t, k)
    \/ \E t \in Threads : GetJoin(t)

SpecQueued == Init /\ [][NextQueued]_vars

\* ------------------------------------------------------------------------
\* A ChunkState used on its own, by its one owner (&mut self).  The call
\* made is kept in last, with what it found: <<data present, noises present>>.
CsCall(op) ==
    [Idle EXCEPT !.op = op, !.pc = "done",
                 !.seen = << IsSome(Unwrap(chunk_state).data),
                             IsSome(Unwrap(chunk_state).noises) >>]
CsMayCall == IsSome(chunk_state) /\ nops < MaxOps

CsNew(c) ==
    /\ chunk_state = None
    /\ chunk_state' = Some(ChunkState_new(c[1], c[2], c[3]))
    /\ UNCHANGED <<WorldVars, th, nops, items, tasks, coord,
                   chunks_lock,
                   collision_chunks, tessellated_chunks, handler>> /\ NoReturn

CsEnsureNoised ==
    /\ CsMayCall
    /\ chunk_state' = Some(ChunkState_ensure_noised(Unwrap(chunk_state)))
    /\ last' = CsCall("ensure_noised")
    /\ nops' = nops + 1
    /\ UNCHANGED <<WorldVars, th, items, tasks, coord,
                   chunks_lock,
                   collision_chunks, tessellated_chunks, handler>>

CsEnsureFormed ==
    /\ CsMayCall
    /\ chunk_state' = Some(ChunkState_ensure_formed(Unwrap(chunk_state)))
    /\ last' = CsCall("ensure_formed")
    /\ nops' = nops + 1
    /\ UNCHANGED <<WorldVars, th, items, tasks, coord,
                   chunks_lock,
                   collision_chunks, tessellated_chunks, handler>>

CsSetBlock(l, block_id) ==
    /\ CsMayCall
    /\ chunk_state' = Some(ChunkState_set_block(Unwrap(chunk_state), l[1], l[2], l[3],
                                                block_id))
    /\ last' = [CsCall("cs_set_block") EXCEPT
                   !.x = l[1], !.y = l[2], !.z = l[3], !.block_id = block_id]
    /\ nops' = nops + 1
    /\ UNCHANGED <<WorldVars, th, items, tasks, coord,
                   chunks_lock,
                   collision_chunks, tessellated_chunks, handler>>

\* A panic of get_block is the result Panic; the chunk state outlives it.
CsGetBlock(l) ==
    /\ CsMayCall
    /\ last' = [CsCall("cs_get_block") EXCEPT
                   !.x = l[1], !.y = l[2], !.z = l[3],
                   !.ret = Some(ChunkState_get_block(Unwrap(chunk_state),
                                                     l[1], l[2], l[3]))]
    /\ nops' = nops + 1
    /\ UNCHANGED <<WorldVars, th, items, tasks, chunk_state, coord,
                   chunks_lock,
                   collision_chunks, tessellated_chunks, handler>>

NextChunk ==
    \/ \E c \in CsCoords : CsNew(c)
    \/ CsEnsureNoised
    \/ CsEnsureFormed
    \/ \E l \in Locals, b \in BlockIds : CsSetBlock(l, b)
    \/ \E l \in Locals : CsGetBlock(l)

SpecChunk == Init /\ [][NextChunk]_vars

\* ------------------------------------------------------------------------
\* ChunkData::new as a function of the samples: a ChunkState is built and
\* noised with samples drawn from small sets instead of the fixed functions
\* above, and formed.  The samples put grass surfaces at global y -1, 0, 1
\* and 2, and the chunks are the three that cover y from -2 to 3.
NoiseSamples == { -4, -3, -1 }
MountainSamples == { 2 }
VarianceSamples == { -1, 1 }
HeightCoords == { <<0, -1, 0>>, <<0, 0, 0>>, <<0, 1, 0>> }

\* ChunkState::new and ensure_noised, ChunkNoises::new filling the arrays
\* with the samples n, m and v.
CsNewNoised(c, n, m, v) ==
    /\ chunk_state = None
    /\ chunk_state' = Some([ChunkState_new(c[1], c[2], c[3]) EXCEPT
                              !.noises = Some([noise |-> n, noise_mountains |-> m,
                                               variance |-> v, rng |-> c])])
    /\ UNCHANGED <<WorldVars, th, nops, items, tasks, coord, chunks_lock,
                   collision_chunks, tessellated_chunks, handler>>
    /\ NoReturn

NextHeight ==
    \/ \E c \in HeightCoords, n \in [Columns -> NoiseSamples],
          m \in [Columns -> MountainSamples], v \in [Columns -> VarianceSamples] :
          CsNewNoised(c, n, m, v)
    \/ CsEnsureFormed

SpecHeight == Init /\ [][NextHeight]_vars

\* ------------------------------------------------------------------------
\* The split of a world coordinate that World::get_block and
\* World::set_block start with, on its own.
Split(v) == [v |-> v, chunk |-> ChunkOf(v), local |-> LocalOf(v)]

CoordSplit(v) ==
    /\ coord' = Some(Split(v))
    /\ UNCHANGED <<WorldVars, th, nops, items, tasks, chunk_state,
                   collision_chunks, tessellated_chunks, handler>> /\ NoReturn

NextCoord == \E v \in WorldCoords : CoordSplit(v)

SpecCoord == Init /\ [][NextCoord]_vars

\* ------------------------------------------------------------------------
\* The calls of the world with the RwLock of World.chunks taken and dropped
\* in steps of its own.  A call starts as a frame; World::ensure_chunk is
\* write(), then the lookup or insertion with the guard dropped at the
\* return; World::ensure_chunks is read(), the probe and drop(chunks_read),
\* write(), then the insertions with the guard dropped at the return.  The
\* steps after ensure_chunk are the actions above.
MapFree == [writer |-> NoThread, readers |-> {}]
MapCanRead == chunks_lock.writer = NoThread
MapCanWrite == chunks_lock.writer = NoThread /\ chunks_lock.readers = {}
MapHeldBy(t) == chunks_lock.writer = t \/ t \in chunks_lock.readers

\* The frames thread t starts a call with.
CallFrames(t) ==
    { [Frame(t, "ensure_chunk", "map_wlock") EXCEPT !.x = c[1], !.y = c[2], !.z = c[3]] :
        c \in ChunkCoords }
    \cup { [Frame(t, "get_chunk", "map_wlock") EXCEPT !.x = c[1], !.y = c[2], !.z = c[3]] :
             c \in ChunkCoords }
    \cup { [Frame(t, "get_block", "map_wlock") EXCEPT !.x = v[1], !.y = v[2], !.z = v[3]] :
             v \in LockVoxels }
    \cup { [Frame(t, "set_block", "map_wlock") EXCEPT !.x = v[1], !.y = v[2], !.z = v[3],
                                                     !.block_id = 0] :
             v \in LockVoxels }
    \cup { [Frame(t, "from_range", "map_wlock") EXCEPT
               !.box = b, !.i = 1, !.data = [k \in 1 .. TotalBlocks(b) |-> 0]] :
             b \in ChunkRanges }
    \cup { [Frame(t, "ensure_chunks", "ecs_rlock") EXCEPT !.box = r] : r \in ChunkRanges }

Call(t, f) ==
    /\ MayCall(t)
    /\ th' = [th EXCEPT ![t] = f]
    /\ views' = IF f.op = "from_range" THEN [views EXCEPT ![t] = None] ELSE views
    /\ nops' = nops + 1
    /\ UNCHANGED <<chunks, heap, locks, chunk_update_listeners, channels, lastSet, written,
                   items, tasks, chunk_state, coord, chunks_lock,
                   collision_chunks, tessellated_chunks, handler>> /\ NoReturn

\* The chunk coordinate the ensure_chunk of a frame is called with, and the
\* position of the frame after it.
EnsureTarget(f) ==
    CASE f.op \in {"ensure_chunk", "get_chunk"} -> <<f.x, f.y, f.z>>
      [] f.op = "from_range" -> Covering(f.box)[f.i]
      [] OTHER -> ChunkOf(<<f.x, f.y, f.z>>)
FormPc(f) ==
    CASE f.op = "get_chunk" -> "gc_form"
      [] f.op = "get_block" -> "get_form"
      [] f.op = "set_block" -> "set_form"
      [] OTHER -> "fr_form"

\* world.chunks.write() of ensure_chunk.
MapWrite(t) ==
    /\ th[t].pc \in {"map_wlock", "fr_ensure"}
    /\ MapCanWrite
    /\ chunks_lock' = [chunks_lock EXCEPT !.writer = t]
    /\ th' = [th EXCEPT ![t].pc = "map_held"]
    /\ UNCHANGED <<chunks, heap, locks, chunk_update_listeners, channels, views, lastSet,
                   written, nops, items, tasks, chunk_state, coord,
                   collision_chunks, tessellated_chunks, handler>> /\ NoReturn

\* An ensure_chunk that keeps the map's guard for the formation that
\* follows it.
EnsureChunkBody_keeping_guard(t) ==
    /\ th[t].pc = "map_held"
    /\ th[t].op # "ensure_chunk"
    /\ \E r \in {World_ensure_chunk(EnsureTarget(th[t]))} :
           /\ chunks' = r[1]
           /\ heap' = r[2]
           /\ written' = Grow(r[2])
           /\ locks' = r[3]
           /\ th' = [th EXCEPT ![t].pc = FormPc(th[t]), ![t].chunk = r[4]]
           /\ NoReturn
    /\ UNCHANGED <<chunk_update_listeners, channels, views, lastSet, nops, items, tasks,
                   chunk_state, coord, chunks_lock,
                   collision_chunks, tessellated_chunks, handler>>

\* The rest of ensure_chunk: lookup, insertion if absent, and the return
\* that drops the guard.
EnsureChunkBody(t) ==
    /\ th[t].pc = "map_held"
    /\ \E r \in {World_ensure_chunk(EnsureTarget(th[t]))} :
           /\ chunks' = r[1]
           /\ heap' = r[2]
           /\ written' = Grow(r[2])
           /\ locks' = r[3]
           /\ IF th[t].op = "ensure_chunk"
              THEN Return(th, t, [th[t] EXCEPT !.chunk = r[4], !.ret = Some(r[4])])
              ELSE /\ th' = [th EXCEPT ![t].pc = FormPc(th[t]), ![t].chunk = r[4]]
                   /\ NoReturn
    /\ chunks_lock' = [chunks_lock EXCEPT !.writer = NoThread]
    /\ UNCHANGED <<chunk_update_listeners, channels, views, lastSet, nops, items, tasks,
                   chunk_state, coord,
                   collision_chunks, tessellated_chunks, handler>>

\* world.chunks.read() of ensure_chunks.
EcsRead(t) ==
    /\ th[t].pc = "ecs_rlock"
    /\ MapCanRead
    /\ chunks_lock' = [chunks_lock EXCEPT !.readers = @ \cup {t}]
    /\ th' = [th EXCEPT ![t].pc = "ecs_probe"]
    /\ UNCHANGED <<chunks, heap, locks, chunk_update_listeners, channels, views, lastSet,
                   written, nops, items, tasks, chunk_state, coord,
                   collision_chunks, tessellated_chunks, handler>> /\ NoReturn

\* A probe that goes on to the second pass with its read guard alive.
EcsProbe_keeping_guard(t) ==
    /\ th[t].pc = "ecs_probe"
    /\ th' = [th EXCEPT ![t].pc = "ecs_wlock",
                        ![t].probe = [k \in DOMAIN CuboidSeq(th[t].box) |->
                                        Probe(CuboidSeq(th[t].box)[k])]]
    /\ UNCHANGED <<chunks, heap, locks, chunk_update_listeners, channels, views, lastSet,
                   written, nops, items, tasks, chunk_state, coord, chunks_lock,
                   collision_chunks, tessellated_chunks, handler>> /\ NoReturn

\* The probe loop and drop(chunks_read).
EcsProbe(t) ==
    /\ th[t].pc = "ecs_probe"
    /\ th' = [th EXCEPT ![t].pc = "ecs_wlock",
                        ![t].probe = [k \in DOMAIN CuboidSeq(th[t].box) |->
                                        Probe(CuboidSeq(th[t].box)[k])]]
    /\ chunks_lock' = [chunks_lock EXCEPT !.readers = @ \ {t}]
    /\ UNCHANGED <<chunks, heap, locks, chunk_update_listeners, channels, views, lastSet,
                   written, nops, items, tasks, chunk_state, coord,
                   collision_chunks, tessellated_chunks, handler>> /\ NoReturn

\* world.chunks.write() of ensure_chunks.
EcsWrite(t) ==
    /\ th[t].pc = "ecs_wlock"
    /\ MapCanWrite
    /\ chunks_lock' = [chunks_lock EXCEPT !.writer = t]
    /\ th' = [th EXCEPT ![t].pc = "ecs_held"]
    /\ UNCHANGED <<chunks, heap, locks, chunk_update_listeners, channels, views, lastSet,
                   written, nops, items, tasks, chunk_state, coord,
                   collision_chunks, tessellated_chunks, handler>> /\ NoReturn

\* The insertion loop and the return that drops the guard.
EcsInsert(t) ==
    /\ th[t].pc = "ecs_held"
    /\ LET r == World_ensure_chunks_insert(th[t].probe)
           hit == \E v \in Voxels : Replaced(r[1], v)
       IN  /\ chunks' = r[1]
           /\ heap' = r[2]
           /\ written' = Grow(r[2])
           /\ locks' = r[3]
           /\ Return(IF hit THEN Dirty(th) ELSE th, t,
                     [th[t] EXCEPT !.chunk_arcs = r[4], !.ret = Some(r[4])])
           /\ views' = IF hit THEN DirtyViews ELSE views
    /\ chunks_lock' = [chunks_lock EXCEPT !.writer = NoThread]
    /\ UNCHANGED <<chunk_update_listeners, channels, lastSet, nops, items, tasks, chunk_state,
                   coord,
                   collision_chunks, tessellated_chunks, handler>>

\* The steps of the call thread t is in.
Continue(t) ==
    \/ MapWrite(t)
    \/ EnsureChunkBody(t)
    \/ EcsRead(t)
    \/ EcsProbe(t)
    \/ EcsWrite(t)
    \/ EcsInsert(t)
    \/ GetChunkForm(t)
    \/ GetBlockForm(t)
    \/ GetBlockRead(t)
    \/ SetBlockForm(t)
    \/ SetBlockWrite(t)
    \/ SetBlockReturn(t)
    \/ FromRangeForm(t)
    \/ FromRangeLock(t)
    \/ FromRangeCopy(t)
    \/ FromRangeReturn(t)

NextLocks ==
    \/ \E t \in Threads : \E f \in CallFrames(t) : Call(t, f)
    \/ \E t \in Threads : Continue(t)

SpecLocks == Init /\ [][NextLocks]_vars

\* While some thread can take a step of its call, the scheduler runs one:
\* a thread that can run is run and a lock that stays free is granted.
FairSpecLocks == SpecLocks /\ WF_vars(\E t \in Threads : Continue(t))

\* ------------------------------------------------------------------------
\* Writes in a known order: a set_block of SecondVoxel is started only when
\* a set_block of FirstVoxel has returned and none is running.  The writers
\* store the id 0, which generation gives neither voxel; views are made of
\* the box that covers both chunks, and ensure_chunks runs beside them.
FirstDone ==
    /\ IsSome(lastSet[FirstVoxel])
    /\ \A u \in Threads :
          ~(th[u].op = "set_block" /\ <<th[u].x, th[u].y, th[u].z>> = FirstVoxel)

OrderFrames(t) ==
    { [Frame(t, "set_block", "map_wlock") EXCEPT
         !.x = FirstVoxel[1], !.y = FirstVoxel[2], !.z = FirstVoxel[3], !.block_id = 0] }
    \cup { [Frame(t, "set_block", "map_wlock") EXCEPT
               !.x = v[1], !.y = v[2], !.z = v[3], !.block_id = 0] :
             v \in IF FirstDone THEN {SecondVoxel} ELSE {} }
    \cup { [Frame(t, "from_range", "map_wlock") EXCEPT
               !.box = b, !.i = 1, !.data = [k \in 1 .. TotalBlocks(b) |-> 0]] :
             b \in ChunkRanges }
    \cup { [Frame(t, "ensure_chunks", "ecs_rlock") EXCEPT !.box = r] : r \in ChunkRanges }

OrderCall(t, f) ==
    /\ th[t].pc = "idle"
    /\ nops < MaxOrderOps
    /\ th' = [th EXCEPT ![t] = f]
    /\ views' = IF f.op = "from_range" THEN [views EXCEPT ![t] = None] ELSE views
    /\ nops' = nops + 1
    /\ UNCHANGED <<chunks, heap, locks, chunk_update_listeners, channels, lastSet, written,
                   items, tasks, chunk_state, coord, chunks_lock,
                   collision_chunks, tessellated_chunks, handler>> /\ NoReturn

NextOrder ==
    \/ \E t \in Threads : \E f \in OrderFrames(t) : OrderCall(t, f)
    \/ \E t \in Threads : MapWrite(t)
    \/ \E t \in Threads : EnsureChunkBody(t)
    \/ \E t \in Threads : EcsRead(t)
    \/ \E t \in Threads : EcsProbe(t)
    \/ \E t \in Threads : EcsWrite(t)
    \/ \E t \in Threads : EcsInsert(t)
    \/ \E t \in Threads : SetBlockForm(t)
    \/ \E t \in Threads : SetBlockWrite(t)
    \/ \E t \in Threads : SetBlockReturn(t)
    \/ \E t \in Threads : FromRangeForm(t)
    \/ \E t \in Threads : FromRangeLock(t)
    \/ \E t \in Threads : FromRangeCopy(t)
    \/ \E t \in Threads : FromRangeReturn(t)

SpecOrder == Init /\ [][NextOrder]_vars

\* ------------------------------------------------------------------------
\* A subscriber (PhysicsEnvironment::handle_chunk_updates): it takes the
\* oldest message of its receiver, then skips it (has_chunk is false) or
\* reads the chunk of the message: VoxelCollisionChunk::from_world makes a
\* view of start ..= start + CHUNK_SIZE_X on every axis; a subscriber may as
\* well read the written voxel with World::get_block.  seen holds the
\* message while the subscriber works on it.  The writers store the id 0,
\* which generation gives none of the voxels they write.
WriteIds == {0}

SubRecv(t, c) ==
    /\ th[t].pc = "idle"
    /\ c \in DOMAIN channels
    /\ ~channels[c].closed
    /\ channels[c].queue # <<>>
    /\ channels' = [channels EXCEPT ![c].queue = Tail(@), ![c].owed = @ - 1]
    /\ th' = [th EXCEPT ![t] = [Frame(t, "handle_chunk_updates", "sub_got") EXCEPT
                                 !.seen = Some(Head(channels[c].queue))]]
    /\ UNCHANGED <<chunks, heap, locks, chunk_update_listeners, views, lastSet,
                   written, nops, items, tasks, chunk_state, coord, chunks_lock,
                   collision_chunks, tessellated_chunks, handler>>
    /\ NoReturn

\* collision_chunks has no entry for the chunk: continue.
SubSkip(t) ==
    /\ th[t].pc = "sub_got"
    /\ th' = [th EXCEPT ![t] = Idle]
    /\ UNCHANGED <<chunks, heap, locks, chunk_update_listeners, channels, views, lastSet,
                   written, nops, items, tasks, chunk_state, coord, chunks_lock,
                   collision_chunks, tessellated_chunks, handler>>
    /\ NoReturn

\* from_world: WorldView::from_range starts.  Of the box of from_world the
\* model reads the part that holds the voxel v the writers store to.
SubFromWorld(t, v) ==
    /\ th[t].pc = "sub_got"
    /\ ChunkOf(v) = Unwrap(th[t].seen)
    /\ \E b \in {<<v[1], v[1], v[2], v[2], v[3], v[3]>>} :
       \E r \in {World_ensure_chunk(Covering(b)[1])} :
           /\ chunks' = r[1]
           /\ heap' = r[2]
           /\ written' = Grow(r[2])
           /\ locks' = r[3]
           /\ th' = [th EXCEPT ![t] = [Frame(t, "from_range", "fr_form") EXCEPT
                                        !.box = b, !.chunk = r[4], !.i = 1,
                                        !.seen = th[t].seen,
                                        !.data = [k \in 1 .. TotalBlocks(b) |-> 0]]]
    /\ views' = [views EXCEPT ![t] = None]
    /\ UNCHANGED <<chunk_update_listeners, channels, lastSet, nops, items, tasks,
                   chunk_state, coord, chunks_lock,
                   collision_chunks, tessellated_chunks, handler>>
    /\ NoReturn

\* World::get_block of a voxel of the message's chunk starts.
SubGetBlock(t, v) ==
    /\ th[t].pc = "sub_got"
    /\ ChunkOf(v) = Unwrap(th[t].seen)
    /\ \E r \in {World_ensure_chunk(ChunkOf(v))} :
           /\ chunks' = r[1]
           /\ heap' = r[2]
           /\ written' = Grow(r[2])
           /\ locks' = r[3]
           /\ th' = [th EXCEPT ![t] = [Frame(t, "get_block", "get_form") EXCEPT
                                        !.x = v[1], !.y = v[2], !.z = v[3],
                                        !.seen = th[t].seen, !.chunk = r[4]]]
    /\ UNCHANGED <<chunk_update_listeners, channels, views, lastSet, nops, items, tasks,
                   chunk_state, coord, chunks_lock,
                   collision_chunks, tessellated_chunks, handler>>
    /\ NoReturn

NextSubscribe ==
    \/ \E t \in Threads, v \in LockVoxels, b \in WriteIds : SetBlockCall(t, v, b)
    \/ \E t \in Threads : SetBlockForm(t)
    \/ \E t \in Threads : SetBlockWrite(t)
    \/ \E t \in Threads : SetBlockNotify(t)
    \/ \E t \in Threads : SetBlockReturn(t)
    \/ \E t \in Threads, r \in ChunkRanges : EnsureChunksCall(t, r)
    \/ \E t \in Threads : EnsureChunksInsert(t)
    \/ Register
    \/ \E t \in Threads, c \in 1 .. MaxListeners : SubRecv(t, c)
    \/ \E t \in Threads : SubSkip(t)
    \/ \E t \in Threads, v \in LockVoxels : SubGetBlock(t, v)
    \/ \E t \in Threads : GetBlockForm(t)
    \/ \E t \in Threads : GetBlockRead(t)
    \/ \E t \in Threads, v \in LockVoxels : SubFromWorld(t, v)
    \/ \E t \in Threads : FromRangeForm(t)
    \/ \E t \in Threads : FromRangeLock(t)
    \/ \E t \in Threads : FromRangeCopy(t)
    \/ \E t \in Threads : FromRangeReturn(t)

SpecSubscribe == Init /\ [][NextSubscribe]_vars

\* Every operation of the world that creates, forms, reads or writes chunks,
\* beside listeners that register and receive.
NextSenders ==
    \/ Register
    \/ \E c \in 1 .. MaxListeners : Recv(c)
    \/ \E t \in Threads, c \in ChunkCoords : EnsureChunkCall(t, c)
    \/ \E t \in Threads, c \in ChunkCoords : GetChunkCall(t, c)
    \/ \E t \in Threads : GetChunkForm(t)
    \/ \E t \in Threads, v \in LockVoxels : GetBlockCall(t, v)
    \/ \E t \in Threads : GetBlockForm(t)
    \/ \E t \in Threads : GetBlockRead(t)
    \/ \E t \in Threads, v \in LockVoxels, b \in WriteIds : SetBlockCall(t, v, b)
    \/ \E t \in Threads : SetBlockForm(t)
    \/ \E t \in Threads : SetBlockWrite(t)
    \/ \E t \in Threads : SetBlockNotify(t)
    \/ \E t \in Threads : SetBlockReturn(t)
    \/ \E t \in Threads, r \in ChunkRanges : EnsureChunksCall(t, r)
    \/ \E t \in Threads : EnsureChunksInsert(t)
    \/ \E t \in Threads, b \in Boxes : FromRangeCall(t, b)
    \/ \E t \in Threads : FromRangeEnsure(t)
    \/ \E t \in Threads : FromRangeForm(t)
    \/ \E t \in Threads : FromRangeLock(t)
    \/ \E t \in Threads : FromRangeCopy(t)
    \/ \E t \in Threads : FromRangeReturn(t)
    \/ \E t \in Threads, c \in NbCentres : NbNew(t, c, 0)
    \/ \E t \in Threads, v \in LockVoxels, b \in WriteIds : NbSetBlock(t, v, b)
    \/ \E t \in Threads : NbDrop(t)

SpecSenders == Init /\ [][NextSenders]_vars

\* ------------------------------------------------------------------------
\* The physics collision cache (src/src/physics.rs).  collision_chunks maps
\* a chunk coordinate to a QueuedItem<VoxelCollisionChunk>; every access
\* holds its Mutex from the first to the last statement, so each is one
\* step.  A task of the cache is [state, out, runs, chunk]; out is <<>>
\* until the task has read the world.  handler is the task spawned by
\* PhysicsEnvironment::new: [pc, rx, msg, chunk], rx the channel it receives
\* from.  Objects stand in the chunks PhysChunks; ensure_for_object covers
\* the chunks within Reach of the object's chunk (the code: 1).
PhysChunks == { <<0, 0, 0>> }
Reach == 0
MaxTasks == 2

\* Tile::is_solid of the tiles TileRegistry::new registers (src/src/tile.rs):
\* stone, dirt, grass, log and leaves are solid, water is not.
Tile_is_solid(id) == id \in {1, 2, 3, 5, 6}

\* VoxelCollisionChunk::from_world of chunk c, from the current state: the
\* chunk is looked up or created and formed (get_chunk), and is_solid is
\* filled from the view, which is a copy made under the read lock: air is
\* skipped, every other id is asked of its tile.  Of the box of the view
\* only the 0 .. CHUNK_SIZE_X - 1 cells of c are read.  The result is
\* <<chunks', heap', locks', is_solid>>, is_solid by cell index from 0.
VoxelCollisionChunk_from_world(c) ==
    LET r == World_ensure_chunk(c)
        cs == ChunkState_ensure_formed(r[2][r[4]])
    IN  << r[1],
           [r[2] EXCEPT ![r[4]] = cs],
           r[3],
           [k \in Cells |->
               LET block_id == ChunkState_get_block(cs, CellX(k), CellY(k), CellZ(k))
               IN  IF block_id = 0 THEN FALSE ELSE Tile_is_solid(block_id)] >>

\* The locks from_world needs are granted: the write lock of get_chunk's
\* formation and the read lock of the copy.
FromWorldCanRun(c) ==
    c \in DOMAIN chunks => CanWrite(chunks[c])

\* A get that answers for a pending item with a chunk of air.
QueuedItem_get_pending_air(item) ==
    IF item.tag = "Ready" THEN <<item, Some(item.value), FALSE>>
    ELSE IF JoinHandle_is_finished(tasks[item.handle])
    THEN <<QueuedItem_Ready(tasks[item.handle].out), Some(tasks[item.handle].out), FALSE>>
    ELSE <<item, Some([k \in Cells |-> FALSE]), FALSE>>

\* QueuedItem::get as a function of the item: <<the item after the call,
\* the Option returned, whether the join failed (a panic)>>.
QueuedItem_get(item) ==
    IF item.tag = "Ready" THEN <<item, Some(item.value), FALSE>>
    ELSE IF JoinHandle_is_finished(tasks[item.handle])
    THEN LET element == JoinHandle_await(tasks[item.handle])
         IN  IF IsSome(element)
             THEN <<QueuedItem_Ready(Unwrap(element)), element, FALSE>>
             ELSE <<item, None, TRUE>>
    ELSE <<item, None, FALSE>>

\* main: World::register_chunk_update_listener, while the world is not
\* shared yet, and PhysicsEnvironment::new with the receiver, which spawns
\* the handler.
PhysicsEnvironment_new ==
    /\ handler.pc = "none"
    /\ \A t \in Threads : th[t].pc = "idle"
    /\ \A c \in DOMAIN channels : channels[c].queue = <<>>
    /\ Len(chunk_update_listeners) < MaxListeners
    /\ channels' = Append(channels,
                     [queue |-> <<>>, closed |-> FALSE, owed |-> 0, born |-> nops])
    /\ chunk_update_listeners' = Append(chunk_update_listeners, Len(channels) + 1)
    /\ handler' = [handler EXCEPT !.pc = "recv", !.rx = Len(channels) + 1]
    /\ UNCHANGED <<chunks, heap, locks, th, views, lastSet, written, nops, items, tasks,
                   chunk_state, coord, chunks_lock, collision_chunks, tessellated_chunks>>
    /\ NoReturn

\* The loop of ensure_for_object over the chunks cs: a chunk without an
\* entry gets QueuedItem::enqueue(from_world(..)).  <<cache', tasks'>>.
RECURSIVE EnsureEntries(_, _, _)
EnsureEntries(cs, cache, tk) ==
    IF cs = <<>> THEN <<cache, tk>>
    ELSE IF Head(cs) \in DOMAIN cache
    THEN EnsureEntries(Tail(cs), cache, tk)
    ELSE EnsureEntries(Tail(cs),
                       (Head(cs) :> QueuedItem_Generating(Len(tk) + 1)) @@ cache,
                       Append(tk, [state |-> "running", out |-> <<>>, runs |-> 0,
                                   chunk |-> Head(cs)]))

\* PhysicsEnvironment::ensure_for_object of an object in chunk c.
EnsureForObject(c) ==
    /\ handler.pc # "none"
    /\ \E r \in {EnsureEntries(NbCube(c, Reach), collision_chunks, tasks)} :
          /\ Len(r[2]) <= MaxTasks
          /\ collision_chunks' = r[1]
          /\ tasks' = r[2]
    /\ NoReturn
    /\ UNCHANGED <<chunks, heap, locks, chunk_update_listeners, channels, th, views,
                   lastSet, written, nops, items, chunk_state, coord, chunks_lock,
                   tessellated_chunks, handler>>

\* The spawned from_world reads the world ...
CollisionTaskRead(h) ==
    /\ h \in DOMAIN tasks
    /\ tasks[h].state = "running"
    /\ tasks[h].out = <<>>
    /\ FromWorldCanRun(tasks[h].chunk)
    /\ \E r \in {VoxelCollisionChunk_from_world(tasks[h].chunk)} :
          /\ chunks' = r[1]
          /\ heap' = r[2]
          /\ written' = Grow(r[2])
          /\ locks' = r[3]
          /\ tasks' = [tasks EXCEPT ![h].out = r[4]]
    /\ UNCHANGED <<chunk_update_listeners, channels, th, views, lastSet, nops, items,
                   chunk_state, coord, chunks_lock, collision_chunks, tessellated_chunks,
                   handler>>
    /\ NoReturn

\* ... and a spawned task that has its result ends, whether or not a
\* QueuedItem still holds its JoinHandle.
SpawnedTaskFinish(h) ==
    /\ h \in DOMAIN tasks
    /\ tasks[h].out # <<>>
    /\ TaskFinish(h)

\* PhysicsEnvironment::solid_at.  last keeps what the call found in seen:
\* <<"absent">>, or the tag of the entry and the state of its task.
SolidAt(v) ==
    LET c == ChunkOf(v)
        l == LocalOf(v)
        call == [Idle EXCEPT !.op = "solid_at", !.pc = "done",
                             !.x = v[1], !.y = v[2], !.z = v[3]]
    IN  /\ handler.pc # "none"
        /\ IF c \in DOMAIN collision_chunks
           THEN \E g \in {QueuedItem_get(collision_chunks[c])} :
                   /\ collision_chunks' = [collision_chunks EXCEPT ![c] = g[1]]
                   /\ last' = [call EXCEPT
                                 !.seen = << collision_chunks[c].tag,
                                             IF collision_chunks[c].tag = "Ready"
                                             THEN "joined"
                                             ELSE tasks[collision_chunks[c].handle].state >>,
                                 !.ret = IF g[3] THEN Some(Panic)
                                         ELSE IF g[2] = None THEN Some(TRUE)
                                         ELSE Some(Unwrap(g[2])[ChunkData_index(l[1], l[2], l[3])])]
           ELSE /\ collision_chunks' = collision_chunks
                /\ last' = [call EXCEPT !.seen = <<"absent">>, !.ret = Some(TRUE)]
        /\ UNCHANGED <<chunks, heap, locks, chunk_update_listeners, channels, th, views,
                       lastSet, written, nops, items, tasks, chunk_state, coord,
                       chunks_lock, tessellated_chunks, handler>>

\* A discard_chunk that aborts the task of the entry it removes.
PhysicsDiscardChunk_aborting(c) ==
    /\ c \in DOMAIN collision_chunks
    /\ collision_chunks' = [k \in DOMAIN collision_chunks \ {c} |-> collision_chunks[k]]
    /\ tasks' = IF collision_chunks[c].tag = "Generating"
                   /\ tasks[collision_chunks[c].handle].state = "running"
                THEN [tasks EXCEPT ![collision_chunks[c].handle].state = "cancelled"]
                ELSE tasks
    /\ NoReturn
    /\ UNCHANGED <<chunks, heap, locks, chunk_update_listeners, channels, th, views,
                   lastSet, written, nops, items, chunk_state, coord, chunks_lock,
                   tessellated_chunks, handler>>

\* PhysicsEnvironment::discard_chunk.
PhysicsDiscardChunk(c) ==
    /\ c \in DOMAIN collision_chunks
    /\ collision_chunks' = [k \in DOMAIN collision_chunks \ {c} |-> collision_chunks[k]]
    /\ NoReturn
    /\ UNCHANGED <<chunks, heap, locks, chunk_update_listeners, channels, th, views,
                   lastSet, written, nops, items, tasks, chunk_state, coord, chunks_lock,
                   tessellated_chunks, handler>>

\* handle_chunk_updates: chunk_updates.recv() ...
HandleRecv ==
    /\ handler.pc = "recv"
    /\ channels[handler.rx].queue # <<>>
    /\ channels' = [channels EXCEPT ![handler.rx].queue = Tail(@),
                                    ![handler.rx].owed = @ - 1]
    /\ handler' = [handler EXCEPT !.pc = "has_chunk",
                                  !.msg = Some(Head(channels[handler.rx].queue))]
    /\ UNCHANGED <<chunks, heap, locks, chunk_update_listeners, th, views, lastSet,
                   written, nops, items, tasks, chunk_state, coord, chunks_lock,
                   collision_chunks, tessellated_chunks>>
    /\ NoReturn

\* A handler that drops every message.
HandleHasChunk_dropping ==
    /\ handler.pc = "has_chunk"
    /\ handler' = [handler EXCEPT !.pc = "recv", !.msg = None]
    /\ UNCHANGED <<chunks, heap, locks, chunk_update_listeners, channels, th, views,
                   lastSet, written, nops, items, tasks, chunk_state, coord, chunks_lock,
                   collision_chunks, tessellated_chunks>>
    /\ NoReturn

\* ... the first look at the cache: without an entry the message is dropped.
HandleHasChunk ==
    /\ handler.pc = "has_chunk"
    /\ handler' = IF Unwrap(handler.msg) \in DOMAIN collision_chunks
                  THEN [handler EXCEPT !.pc = "from_world"]
                  ELSE [handler EXCEPT !.pc = "recv", !.msg = None]
    /\ UNCHANGED <<chunks, heap, locks, chunk_update_listeners, channels, th, views,
                   lastSet, written, nops, items, tasks, chunk_state, coord, chunks_lock,
                   collision_chunks, tessellated_chunks>>
    /\ NoReturn

\* ... from_world(..).await, with no lock of the cache held ...
HandleFromWorld ==
    /\ handler.pc = "from_world"
    /\ FromWorldCanRun(Unwrap(handler.msg))
    /\ \E r \in {VoxelCollisionChunk_from_world(Unwrap(handler.msg))} :
          /\ chunks' = r[1]
          /\ heap' = r[2]
          /\ written' = Grow(r[2])
          /\ locks' = r[3]
          /\ handler' = [handler EXCEPT !.pc = "insert", !.chunk = r[4]]
    /\ UNCHANGED <<chunk_update_listeners, channels, th, views, lastSet, nops, items,
                   tasks, chunk_state, coord, chunks_lock, collision_chunks,
                   tessellated_chunks>>
    /\ NoReturn

\* A handler that stores its result without the second look.
HandleInsert_unchecked ==
    /\ handler.pc = "insert"
    /\ collision_chunks' =
          [k \in DOMAIN collision_chunks \cup {Unwrap(handler.msg)} |->
              IF k = Unwrap(handler.msg) THEN QueuedItem_Ready(handler.chunk)
              ELSE collision_chunks[k]]
    /\ handler' = [handler EXCEPT !.pc = "recv", !.msg = None, !.chunk = <<>>]
    /\ UNCHANGED <<chunks, heap, locks, chunk_update_listeners, channels, th, views,
                   lastSet, written, nops, items, tasks, chunk_state, coord, chunks_lock,
                   tessellated_chunks>>
    /\ NoReturn

\* ... and the second look: the entry, if there is one now, becomes Ready.
HandleInsert ==
    /\ handler.pc = "insert"
    /\ collision_chunks' =
          IF Unwrap(handler.msg) \in DOMAIN collision_chunks
          THEN [collision_chunks EXCEPT
                  ![Unwrap(handler.msg)] = QueuedItem_Ready(handler.chunk)]
          ELSE collision_chunks
    /\ handler' = [handler EXCEPT !.pc = "recv", !.msg = None, !.chunk = <<>>]
    /\ UNCHANGED <<chunks, heap, locks, chunk_update_listeners, channels, th, views,
                   lastSet, written, nops, items, tasks, chunk_state, coord, chunks_lock,
                   tessellated_chunks>>
    /\ NoReturn

NextPhysics ==
    \/ PhysicsEnvironment_new
    \/ \E t \in Threads, v \in LockVoxels, b \in BlockIds : SetBlockCall(t, v, b)
    \/ \E t \in Threads : SetBlockForm(t)
    \/ \E t \in Threads : SetBlockWrite(t)
    \/ \E t \in Threads : SetBlockNotify(t)
    \/ \E t \in Threads : SetBlockReturn(t)
    \/ \E c \in PhysChunks : EnsureForObject(c)
    \/ \E h \in 1 .. MaxTasks : CollisionTaskRead(h)
    \/ \E h \in 1 .. MaxTasks : SpawnedTaskFinish(h)
    \/ \E v \in LockVoxels : SolidAt(v)
    \/ \E c \in PhysChunks : PhysicsDiscardChunk(c)
    \/ HandleRecv
    \/ HandleHasChunk
    \/ HandleFromWorld
    \/ HandleInsert

SpecPhysics == Init /\ [][NextPhysics]_vars

\* The cache beside one writer: tasks are started, polled, dropped by
\* discard_chunk and replaced by the handler.
NextCancel ==
    \/ PhysicsEnvironment_new
    \/ \E v \in LockVoxels, b \in WriteIds : SetBlockCall(1, v, b)
    \/ \E t \in Threads : SetBlockForm(t)
    \/ \E t \in Threads : SetBlockWrite(t)
    \/ \E t \in Threads : SetBlockNotify(t)
    \/ \E t \in Threads : SetBlockReturn(t)
    \/ \E c \in PhysChunks : EnsureForObject(c)
    \/ \E h \in 1 .. MaxTasks : CollisionTaskRead(h)
    \/ \E h \in 1 .. MaxTasks : SpawnedTaskFinish(h)
    \/ \E v \in LockVoxels : SolidAt(v)
    \/ \E c \in PhysChunks : PhysicsDiscardChunk(c)
    \/ HandleRecv
    \/ HandleHasChunk
    \/ HandleFromWorld
    \/ HandleInsert

SpecCancel == Init /\ [][NextCancel]_vars

\* The runtime runs the spawned tasks, the handler and the callers that are
\* not blocked, and the physics loop keeps asking solid_at.
Worker ==
    \/ \E h \in 1 .. MaxTasks : CollisionTaskRead(h) \/ SpawnedTaskFinish(h)
    \/ \E t \in Threads : SetBlockForm(t) \/ SetBlockWrite(t) \/ SetBlockNotify(t)
                            \/ SetBlockReturn(t)
    \/ HandleRecv \/ HandleHasChunk \/ HandleFromWorld \/ HandleInsert
FairSpecCancel ==
    /\ SpecCancel
    /\ WF_vars(Worker)
    /\ WF_vars(\E v \in LockVoxels : SolidAt(v))

\* ------------------------------------------------------------------------
\* The tessellator (src/src/tessellator.rs): tessellated_chunks maps a chunk
\* position to the map of its levels of detail, each a QueuedItem of a mesh.
\* render_chunks gives every position of the cube around the camera a map,
\* empty at first, so the variable keeps the map in three parts: cubes, the
\* camera chunks whose cube render_chunks has walked, gone, the positions
\* discard_chunk has removed since, and lods, the maps that are not empty.
\* handler.tess is the tessellator's handle_chunk_updates: its position, the
\* message it works on and lods_needed.  A mesh is kept as the key it was
\* made for; its geometry is not modelled.
RenderDistance == 4
\* The camera positions (voxels) render_chunks is called with, the offsets at
\* which rng.random_bool(0.1) can come out true, and the chunks updates and
\* discards are about.
Cameras == { <<0, 0, 0>>, <<8, 8, 4>> }
MeshDraws == { <<0, 0, 0>>, <<-4, -4, -2>> }
TessChunks == { <<0, 0, 0>> }

TessellatedChunk_from_world(pos, lod) == [pos |-> pos, lod |-> lod]

\* Tessellator::new: the map is empty and the handler is spawned.
Tessellator_new ==
    /\ handler.tess.pc = "none"
    /\ handler' = [handler EXCEPT !.tess.pc = "recv"]
    /\ NoReturn
    /\ UNCHANGED <<chunks, heap, locks, chunk_update_listeners, channels, th, views,
                   lastSet, written, nops, items, tasks, chunk_state, coord, chunks_lock,
                   collision_chunks, tessellated_chunks>>

\* The place of an offset in the order of the loops of render_chunks, each
\* over -render_distance .. render_distance - 1: x outermost, then z, then y.
RenderRank(o) ==
    ((o[1] + RenderDistance) * 2 * RenderDistance + (o[3] + RenderDistance))
        * 2 * RenderDistance + (o[2] + RenderDistance)
desired_lod(o) ==
    LET distance_to_camera == o[1] * o[1] + o[2] * o[2] + o[3] * o[3]
    IN  IF distance_to_camera < 6 * 6 THEN 1
        ELSE IF distance_to_camera < 12 * 12 THEN 2
        ELSE IF distance_to_camera < 18 * 18 THEN 4
        ELSE IF distance_to_camera < 24 * 24 THEN 8
        ELSE 16

\* The position p is one of the loops of render_chunks around camera chunk c.
InRender(c, p) ==
    \A i \in 1 .. 3 : p[i] - c[i] \in -RenderDistance .. RenderDistance - 1
\* chunks_handle.contains_key(&p), and the map of levels of a position,
\* empty when the position is new.
HasChunkPos(cache, p) ==
    p \notin cache.gone /\ \E c \in cache.cubes : InRender(c, p)
LodsOf(cache, p) == IF p \in DOMAIN cache.lods THEN cache.lods[p] ELSE <<>>

\* The loop "any other lod" over the levels 1, 2, 4, 8, 16 of a map: a level
\* is polled unless a lower level has answered with a mesh (break).
LodPolled(m, l) ==
    \A k \in DOMAIN m : k < l => QueuedItem_get(m[k])[2] = None
PollLods(m) ==
    [l \in DOMAIN m |-> IF LodPolled(m, l) THEN QueuedItem_get(m[l])[1] ELSE m[l]]

\* A render_chunks that enqueues whenever the draw comes out true.
MeshKeyAbsent_always(m, lod) == TRUE
\* !chunks_handle[&chunk_pos].contains_key(&desired_lod)
MeshKeyAbsent(m, lod) == lod \notin DOMAIN m

\* One pass of the loop body of render_chunks for a position with the map m
\* of levels: with handle > 0 the draw came out true and handle is the task
\* enqueued.  The map after the pass.
RenderEntry(m, lod, handle) ==
    IF MeshKeyAbsent(m, lod)
    THEN IF handle > 0
         THEN (lod :> QueuedItem_Generating(handle)) @@ PollLods(m)
         ELSE PollLods(m)
    ELSE LET g == QueuedItem_get(m[lod])
             m1 == [m EXCEPT ![lod] = g[1]]
         IN  IF g[2] # None THEN m1 ELSE PollLods(m1)

\* Tessellator::render_chunks for a camera, under the mutex of the map from
\* the first position to the last; draws are the offsets where the random
\* draw comes out true.  last keeps in seen how many of the drawn keys were
\* present and how many tasks were enqueued.
RenderChunks(camera, draws) ==
    LET camera_chunk_pos == ChunkOf(camera)
        At(o) == << camera_chunk_pos[1] + o[1], camera_chunk_pos[2] + o[2],
                    camera_chunk_pos[3] + o[3] >>
        Off(p) == << p[1] - camera_chunk_pos[1], p[2] - camera_chunk_pos[2],
                     p[3] - camera_chunk_pos[3] >>
        spawning == { o \in draws :
                        MeshKeyAbsent(LodsOf(tessellated_chunks, At(o)), desired_lod(o)) }
        HandleOf(o) ==
            IF o \in spawning
            THEN Len(tasks) + Cardinality({ q \in spawning : RenderRank(q) <= RenderRank(o) })
            ELSE 0
        TaskOf(h) ==
            LET o == CHOOSE q \in spawning : HandleOf(q) = h
            IN  [state |-> "running",
                 out |-> TessellatedChunk_from_world(At(o), desired_lod(o)),
                 runs |-> 0, chunk |-> At(o), lod |-> desired_lod(o)]
    IN  /\ handler.tess.pc # "none"
        /\ Len(tasks) + Cardinality(spawning) <= MaxTasks
        /\ tessellated_chunks' =
              [cubes |-> tessellated_chunks.cubes \cup {camera_chunk_pos},
               gone |-> { p \in tessellated_chunks.gone : ~InRender(camera_chunk_pos, p) },
               lods |-> [p \in DOMAIN tessellated_chunks.lods
                                 \cup { At(o) : o \in spawning } |->
                           IF InRender(camera_chunk_pos, p)
                           THEN RenderEntry(LodsOf(tessellated_chunks, p),
                                            desired_lod(Off(p)), HandleOf(Off(p)))
                           ELSE tessellated_chunks.lods[p]]]
        /\ tasks' = [h \in 1 .. Len(tasks) + Cardinality(spawning) |->
                        IF h <= Len(tasks) THEN tasks[h] ELSE TaskOf(h)]
        /\ last' = [Idle EXCEPT !.op = "render_chunks", !.pc = "done",
                                !.x = camera[1], !.y = camera[2], !.z = camera[3],
                                !.seen = << Cardinality(draws \ spawning),
                                            Cardinality(spawning) >>]
        /\ UNCHANGED <<chunks, heap, locks, chunk_update_listeners, channels, th, views,
                       lastSet, written, nops, items, chunk_state, coord, chunks_lock,
                       collision_chunks, handler>>

\* Tessellator::discard_chunk.
TessDiscardChunk(c) ==
    /\ HasChunkPos(tessellated_chunks, c)
    /\ tessellated_chunks' =
          [tessellated_chunks EXCEPT
             !.gone = @ \cup {c},
             !.lods = [k \in DOMAIN tessellated_chunks.lods \ {c} |->
                          tessellated_chunks.lods[k]]]
    /\ NoReturn
    /\ UNCHANGED <<chunks, heap, locks, chunk_update_listeners, channels, th, views,
                   lastSet, written, nops, items, tasks, chunk_state, coord, chunks_lock,
                   collision_chunks, handler>>

\* Tessellator::handle_chunk_updates: recv() answers with an update of chunk
\* c, and lods_needed is read under the mutex ...
TessHandleRecv(c) ==
    /\ handler.tess.pc = "recv"
    /\ handler' = [handler EXCEPT
                     !.tess = [pc |-> "insert", msg |-> Some(c),
                               lods |-> DOMAIN LodsOf(tessellated_chunks, c)]]
    /\ NoReturn
    /\ UNCHANGED <<chunks, heap, locks, chunk_update_listeners, channels, th, views,
                   lastSet, written, nops, items, tasks, chunk_state, coord, chunks_lock,
                   collision_chunks, tessellated_chunks>>

\* ... the meshes of the chunk and its 26 neighbours are made in the handler
\* itself, and under the mutex again each is stored as Ready where the map
\* has the position.
TessHandleInsert ==
    LET c == Unwrap(handler.tess.msg)
        near == { p \in { <<c[1] + ox, c[2] + oy, c[3] + oz>> :
                            ox \in -1 .. 1, oy \in -1 .. 1, oz \in -1 .. 1 } :
                    HasChunkPos(tessellated_chunks, p) }
        stored == IF handler.tess.lods = {} THEN {} ELSE near
    IN  /\ handler.tess.pc = "insert"
        /\ tessellated_chunks' =
              [tessellated_chunks EXCEPT
                 !.lods = [p \in DOMAIN tessellated_chunks.lods \cup stored |->
                             IF p \in stored
                             THEN [l \in DOMAIN LodsOf(tessellated_chunks, p)
                                           \cup handler.tess.lods |->
                                     IF l \in handler.tess.lods
                                     THEN QueuedItem_Ready(TessellatedChunk_from_world(p, l))
                                     ELSE tessellated_chunks.lods[p][l]]
                             ELSE tessellated_chunks.lods[p]]]
        /\ handler' = [handler EXCEPT !.tess = [pc |-> "recv", msg |-> None, lods |-> {}]]
        /\ NoReturn
        /\ UNCHANGED <<chunks, heap, locks, chunk_update_listeners, channels, th, views,
                       lastSet, written, nops, items, tasks, chunk_state, coord,
                       chunks_lock, collision_chunks>>

\* The two caches and their tasks in a world nobody writes.
NextSpawn ==
    \/ PhysicsEnvironment_new
    \/ Tessellator_new
    \/ \E c \in PhysChunks : EnsureForObject(c)
    \/ \E h \in 1 .. MaxTasks : CollisionTaskRead(h)
    \/ \E h \in 1 .. MaxTasks : SpawnedTaskFinish(h)
    \/ \E v \in LockVoxels : SolidAt(v)
    \/ \E c \in PhysChunks : PhysicsDiscardChunk(c)
    \/ \E camera \in Cameras, draws \in SUBSET MeshDraws : RenderChunks(camera, draws)
    \/ \E c \in TessChunks : TessDiscardChunk(c)
    \/ \E c \in TessChunks : TessHandleRecv(c)
    \/ TessHandleInsert

SpecSpawn == Init /\ [][NextSpawn]_vars

\* ========================================================================
\* Properties.

\* The voxels of the box of a view, and the coordinates around the boxes.
BoxVoxels(view) ==
    { <<x, y, z>> : x \in view.origin[1] .. (view.origin[1] + view.size[1] - 1),
                    y \in view.origin[2] .. (view.origin[2] + view.size[2] - 1),
                    z \in view.origin[3] .. (view.origin[3] + view.size[3] - 1) }
\* The boxes and one step more on every axis and side.
Around ==
    { <<x, y, z>> : x \in -2 .. 1, y \in -2 .. 1, z \in -1 .. CHUNK_SIZE_X }
\* The voxels of the chunks the calls touch.
Touched ==
    { <<x, y, z>> : x \in -CHUNK_SIZE_X .. (CHUNK_SIZE_X - 1),
                    y \in -CHUNK_SIZE_X .. (CHUNK_SIZE_X - 1),
                    z \in 0 .. (CHUNK_SIZE_X - 1) }
\* The chunk coordinate of a voxel by floor division, and the id generation
\* gives the voxel.
FloorChunk(v) == << v[1] \div CHUNK_SIZE_X, v[2] \div CHUNK_SIZE_X, v[3] \div CHUNK_SIZE_X >>
GeneratedAt(v) ==
    LET c == FloorChunk(v)
        n == ChunkNoises_new(c[1], c[2], c[3])
    IN  GeneratedBlock(v[2], TargetHeight(n, (v[1] % CHUNK_SIZE_X)
                                              + (v[3] % CHUNK_SIZE_X) * CHUNK_SIZE_X))
LastVoxel == <<last.x, last.y, last.z>>
\* The id the world holds for a voxel: the cell of the chunk the map has for
\* it, or the generated id while that chunk is absent or not formed.
Stored(v) ==
    IF FloorChunk(v) \in DOMAIN chunks /\ IsSome(heap[chunks[FloorChunk(v)]].data)
    THEN Unwrap(heap[chunks[FloorChunk(v)]].data).block_ids[
             (v[1] % CHUNK_SIZE_X) + (v[2] % CHUNK_SIZE_X) * CHUNK_SIZE_X
             + (v[3] % CHUNK_SIZE_X) * CHUNK_SIZE_X * CHUNK_SIZE_X]
    ELSE GeneratedAt(v)

\* C1: a get_block of a voxel returns the id of the last set_block that wrote
\* the voxel, and the write of a set_block leaves every other voxel of the
\* world, in the same chunk and in every other chunk, as it was.
C1_GetAfterSet ==
    [][ /\ (last.op = "get_block" /\ IsSome(lastSet[LastVoxel])
              => last.ret = lastSet[LastVoxel])'
        /\ \A t \in Threads :
             th[t].pc = "set_write" /\ th'[t].pc = "set_notify"
             => \A w \in Touched :
                  Stored(w)' = IF w = <<th[t].x, th[t].y, th[t].z>>
                               THEN th[t].block_id
                               ELSE Stored(w) ]_vars

\* C2: a coordinate that has an entry in the map keeps that entry.
C2_EntryKept ==
    [][\A c \in DOMAIN chunks : c \in DOMAIN chunks' /\ chunks'[c] = chunks[c]]_vars

\* The views that exist.
Views == { Unwrap(views[t]) : t \in { u \in Threads : IsSome(views[u]) } }
BoxOf(view) == << view.origin[1], view.origin[1] + view.size[1] - 1,
                  view.origin[2], view.origin[2] + view.size[2] - 1,
                  view.origin[3], view.origin[3] + view.size[3] - 1 >>

C4_OutsideIsAir ==
    /\ \A view \in Views :
         \A q \in Around \ BoxVoxels(view) :
            WorldView_get_block(view, q[1], q[2], q[3]) = 0
    /\ last.op = "view_get_block"
         /\ ~WorldView_contains(Unwrap(views[last.who]), last.x, last.y, last.z)
         => last.ret = Some(0)

\* A query outside the box of a view that holds ids other than 0.
C4_Witness ==
    /\ last.op = "view_get_block"
    /\ ~WorldView_contains(Unwrap(views[last.who]), last.x, last.y, last.z)
    /\ last.ret = Some(0)
    /\ \A k \in DOMAIN Unwrap(views[last.who]).data :
          Unwrap(views[last.who]).data[k] # 0

\* C5: no step changes what a finished view answers: get_block, contains,
\* bounds and iter_blocks give the same results after the step as before.
C5_ViewIsSnapshot ==
    [][\A t \in Threads :
          IsSome(views[t]) /\ IsSome(views'[t])
          => /\ \A q \in Queries :
                  /\ WorldView_get_block(Unwrap(views[t]), q[1], q[2], q[3])'
                       = WorldView_get_block(Unwrap(views[t]), q[1], q[2], q[3])
                  /\ WorldView_contains(Unwrap(views[t]), q[1], q[2], q[3])'
                       = WorldView_contains(Unwrap(views[t]), q[1], q[2], q[3])
             /\ WorldView_bounds(Unwrap(views[t]))' = WorldView_bounds(Unwrap(views[t]))
             /\ WorldView_iter_blocks(Unwrap(views[t]))'
                  = WorldView_iter_blocks(Unwrap(views[t]))]_vars

\* A view whose box holds a voxel that a later set_block changed.
C5_Witness ==
    \E view \in Views :
        \E v \in Voxels \cap BoxVoxels(view) :
            /\ IsSome(lastSet[v])
            /\ WorldView_get_block(view, v[1], v[2], v[3]) # Unwrap(lastSet[v])
            /\ World_get_block(v[1], v[2], v[3]) = Unwrap(lastSet[v])

\* C6: the voxels a view took from one chunk are that chunk's cells at the
\* moment the view took the chunk's read lock.
C6_PerChunkAtomic ==
    \A view \in Views :
        \A v \in BoxVoxels(view) :
            LET k == Unwrap(chunk_map_get(BoxOf(view), FloorChunk(v)))
            IN  /\ IsSome(view.snap[k])
                /\ WorldView_get_block(view, v[1], v[2], v[3])
                     = Unwrap(view.snap[k]).block_ids[
                           (v[1] % CHUNK_SIZE_X) + (v[2] % CHUNK_SIZE_X) * CHUNK_SIZE_X
                           + (v[3] % CHUNK_SIZE_X) * CHUNK_SIZE_X * CHUNK_SIZE_X]

\* A from_range returns after a set_block wrote a covered voxel during it.
C6_Witness ==
    /\ last.op = "from_range"
    /\ ~last.clean
    /\ \E v \in Voxels \cap BoxVoxels(Unwrap(views[last.who])) :
          /\ IsSome(lastSet[v])
          /\ Unwrap(lastSet[v]) # GeneratedAt(v)

\* C7: a get_block returns the id the last set_block wrote to the voxel under
\* the lock of the ChunkState it reads, or the generated id when none has.
C7_Linearized ==
    last.op = "get_block"
    => last.ret = IF IsSome(written[last.chunk][LastVoxel])
                  THEN written[last.chunk][LastVoxel]
                  ELSE Some(GeneratedAt(LastVoxel))

\* A get_block returns a written id while another thread is inside a
\* set_block on the same chunk, about to take its lock.
C7_Witness ==
    /\ last.op = "get_block"
    /\ IsSome(written[last.chunk][LastVoxel])
    /\ last.ret # Some(GeneratedAt(LastVoxel))
    /\ \E u \in Threads : th[u].op = "set_block" /\ th[u].chunk = last.chunk
                          /\ th[u].pc = "set_write"
\* ------------------------------------------------------------------------
\* The listeners, in order, that are the channels' sending ends.
Listeners == { chunk_update_listeners[p] : p \in DOMAIN chunk_update_listeners }

\* C8: a set_block that returns has made exactly one send per registered
\* listener, in the order of the list, each carrying the chunk coordinate
\* that floor division gives the written voxel (never a neighbour's, also
\* for a voxel on a chunk face), whether or not the id it wrote differs from
\* the id that was stored.
C8_OneMessagePerListener ==
    last.op = "set_block"
    => last.sends = [p \in DOMAIN chunk_update_listeners |->
                        <<chunk_update_listeners[p], FloorChunk(LastVoxel)>>]

\* A set_block at a negative coordinate that wrote the id already stored and
\* notified two listeners.
C8_Witness ==
    /\ last.op = "set_block"
    /\ LastVoxel = <<-1, 0, 0>>
    /\ last.old = Some(last.block_id)
    /\ Len(last.sends) = 2

\* C9: a send to a closed receiver changes nothing and the loop goes on to
\* the next listener; a send to an open one appends the message to its
\* queue.  A set_block that returns while a receiver is closed has written
\* its id into the chunk state it locked and has made a send to every
\* listener.
C9_ClosedReceiverIgnored ==
    [][ /\ \A t \in Threads :
             /\ th[t].pc = "set_notify"
             /\ th[t].i <= Len(chunk_update_listeners)
             /\ th'[t] # th[t]
             => LET ch == chunk_update_listeners[th[t].i]
                    msg == FloorChunk(<<th[t].x, th[t].y, th[t].z>>)
                IN  /\ th'[t].pc = "set_notify"
                    /\ th'[t].i = th[t].i + 1
                    /\ channels' = IF channels[ch].closed THEN channels
                                   ELSE [channels EXCEPT ![ch].queue = Append(@, msg)]
        /\ ( last.op = "set_block" /\ (\E c \in Listeners : channels[c].closed)
             => /\ ChunkState_get_block(heap[last.chunk],
                                        last.x % CHUNK_SIZE_X, last.y % CHUNK_SIZE_X,
                                        last.z % CHUNK_SIZE_X) = last.block_id
                /\ Len(last.sends) = Len(chunk_update_listeners) )' ]_vars

\* A set_block that returned with the first listener's receiver closed and
\* its message in the queue of the second.
C9_Witness ==
    /\ last.op = "set_block"
    /\ Len(chunk_update_listeners) = 2
    /\ channels[chunk_update_listeners[1]].closed
    /\ ~channels[chunk_update_listeners[2]].closed
    /\ channels[chunk_update_listeners[2]].queue = <<FloorChunk(LastVoxel)>>

\* C10: a registration appends one new channel to the list and changes no
\* other; the channel starts open and empty.  An open listener's receiver
\* has taken or has queued one message for each write made since its
\* registration, but for the writes whose loop has not reached it yet.
C10_RegisterAppendsOne ==
    [][ /\ chunk_update_listeners' # chunk_update_listeners
           => \E c \in DOMAIN channels' \ DOMAIN channels :
                 /\ chunk_update_listeners' = Append(chunk_update_listeners, c)
                 /\ c \notin Listeners
                 /\ channels'[c].queue = <<>> /\ ~channels'[c].closed
                 /\ channels'[c].owed = 0
                 /\ \A d \in DOMAIN channels : channels'[d] = channels[d]
        /\ ( \A p \in DOMAIN chunk_update_listeners :
               LET c == chunk_update_listeners[p]
               IN  ~channels[c].closed
                   => channels[c].owed
                        = Len(channels[c].queue)
                          + Cardinality({ t \in Threads :
                                th[t].pc = "set_notify" /\ th[t].i <= p }) )' ]_vars

\* A listener registered after one set_block and before another: its queue
\* holds the message of the second only.
C10_Witness ==
    \E c \in Listeners :
        /\ ~channels[c].closed
        /\ channels[c].born >= 1
        /\ nops = channels[c].born + 1
        /\ Cardinality({ v \in Voxels : IsSome(lastSet[v]) }) = 2
        /\ last.op = "set_block"
        /\ channels[c].queue = <<FloorChunk(LastVoxel)>>
        /\ channels[c].owed = 1
\* ------------------------------------------------------------------------
\* The chunk of v lies in the cube of chunks the neighborhood nb locked.
InCube(nb, v) ==
    \A a \in 1 .. 3 :
        /\ FloorChunk(v)[a] + nb.offset[a] >= -(nb.size \div 2)
        /\ FloorChunk(v)[a] + nb.offset[a] <= nb.size \div 2
\* The voxels of the cube of radius 2 around the chunk (0, 0, 0).
NbRegion ==
    { <<x, y, z>> : x \in (-2 * CHUNK_SIZE_X) .. (3 * CHUNK_SIZE_X - 1),
                    y \in (-2 * CHUNK_SIZE_X) .. (3 * CHUNK_SIZE_X - 1),
                    z \in (-2 * CHUNK_SIZE_X) .. (3 * CHUNK_SIZE_X - 1) }

\* C11: a Neighborhood get_block or set_block on a coordinate whose chunk is
\* outside the locked cube panics and leaves every chunk as it was.
C11_OutsideCubeFails ==
    [][ ( /\ last.op \in {"nb_set_block", "nb_get_block"}
          /\ ~InCube(Unwrap(last.nb), LastVoxel) )'
        => (last.ret = Some(Panic))' /\ heap' = heap ]_vars

GetReturns(k) == last'.op = "queued_get" /\ last'.i = k
GetStarts(t, k) ==
    /\ th[t].pc = "idle"
    /\ \/ last'.op = "queued_get" /\ last'.who = t /\ last'.i = k
       \/ th'[t].op = "queued_get" /\ th'[t].i = k

\* C13: a get that returns while the work of its item is still running
\* returns None; a get that returns a value returns the value the work
\* produced in its one run and leaves the item Ready with it; a get on a
\* Ready item returns the item's value and changes neither item nor task.
C13_NoneThenSameValue ==
    [][ \A k \in DOMAIN items :
          GetReturns(k)
          => /\ tasks[k].state = "running" => last'.ret = None
             /\ last'.ret \notin {None, Some(Panic)}
                  => /\ last'.ret = Some(tasks[k].out)
                     /\ items'[k] = [tag |-> "Ready", value |-> tasks[k].out]
                     /\ tasks[k].runs = 1
             /\ items[k].tag = "Ready"
                  => /\ last'.ret = Some(items[k].value)
                     /\ items' = items
             /\ tasks' = tasks ]_vars

\* A get that found its item Ready returned the value of the work.
C13_Witness ==
    /\ last.op = "queued_get"
    /\ last.seen = <<"Ready", "finished">>
    /\ last.ret = Some(tasks[last.i].out)

\* C14: an item changes only in a step in which a get on it returns, and
\* only from Generating to Ready; a new item is Generating, whether or not
\* its work has ended.
C14_OnlyGeneratingToReady ==
    [][ /\ \A k \in DOMAIN items :
             /\ k \in DOMAIN items'
             /\ items'[k] # items[k]
                  => /\ items[k].tag = "Generating"
                     /\ items'[k].tag = "Ready"
                     /\ GetReturns(k)
        /\ \A k \in DOMAIN items' \ DOMAIN items : items'[k].tag = "Generating" ]_vars

\* One item has become Ready while another, whose work has ended, is
\* still Generating.
C14_Witness ==
    \E k, j \in DOMAIN items :
        /\ items[k].tag = "Ready"
        /\ items[j].tag = "Generating"
        /\ tasks[j].state = "finished"

\* C15: a get that starts while the work is running returns None in that
\* same step and changes neither the item nor the task; a get is at its
\* join only when the task has ended.
C15_GetNeverWaits ==
    [][ /\ \A t \in Threads, k \in DOMAIN items :
             GetStarts(t, k) /\ items[k].tag = "Generating" /\ tasks[k].state = "running"
             => /\ last'.op = "queued_get"
                /\ last'.ret = None
                /\ items' = items
                /\ tasks' = tasks
        /\ ( \A t \in Threads :
               th[t].pc = "q_join" => tasks[th[t].i].state # "running" )' ]_vars

\* A get found the work running and returned None.
C15_Witness ==
    /\ last.op = "queued_get"
    /\ last.seen = <<"Generating", "running">>
    /\ last.ret = None

\* C16: a get on an item whose task has panicked does not return None: it
\* goes to the join, which panics, returns nothing and leaves the item
\* Generating.
C16_FailedTaskIsFatal ==
    [][ \A t \in Threads, k \in DOMAIN items :
          /\ GetStarts(t, k) /\ items[k].tag = "Generating"
                /\ tasks[k].state = "panicked"
             => th'[t].pc = "q_join"
          /\ th[t].pc = "q_join" /\ th[t].i = k /\ tasks[k].state = "panicked"
                /\ th'[t] # th[t]
             => /\ th'[t].pc = "panicked"
                /\ last'.ret = Some(Panic)
                /\ items'[k] = items[k]
                /\ items'[k].tag = "Generating" ]_vars

\* A get joined a panicked task and panicked.
C16_Witness ==
    /\ last.op = "queued_get"
    /\ last.seen = <<"Generating", "panicked">>
    /\ last.ret = Some(Panic)
    /\ items[last.i].tag = "Generating"
\* ------------------------------------------------------------------------
\* The data generation gives the chunk state st.
GeneratedData(st) == ChunkData_new(st.x, st.y, st.z, ChunkNoises_new(st.x, st.y, st.z))

\* C17: get_block on a chunk state without data panics, whatever the local
\* coordinate, and leaves the chunk state as it is; set_block on one leaves
\* it with its height field and with the generated data in which the one
\* cell holds the id written.
C17_UnformedReadPanics ==
    [][ /\ last'.op = "cs_get_block" /\ ~ChunkState_is_formed(Unwrap(chunk_state))
           => last'.ret = Some(Panic) /\ chunk_state' = chunk_state
        /\ last'.op = "cs_set_block" /\ ~ChunkState_is_formed(Unwrap(chunk_state))
           => LET st == Unwrap(chunk_state)
                  new == Unwrap(chunk_state')
                  cell == last'.x + last'.y * CHUNK_SIZE_X
                            + last'.z * CHUNK_SIZE_X * CHUNK_SIZE_X
              IN  /\ new.noises = Some(ChunkNoises_new(st.x, st.y, st.z))
                  /\ IsSome(new.data)
                  /\ Unwrap(new.data).height_map = GeneratedData(st).height_map
                  /\ \A i \in 0 .. (CHUNK_SIZE - 1) :
                        Unwrap(new.data).block_ids[i]
                          = IF i = cell THEN last'.block_id
                            ELSE GeneratedData(st).block_ids[i] ]_vars

\* A get_block at the far corner of a chunk state without data panicked.
C17_Witness ==
    /\ last.op = "cs_get_block"
    /\ last.seen[1] = FALSE
    /\ <<last.x, last.y, last.z>> = <<CHUNK_SIZE_X - 1, CHUNK_SIZE_X - 1, CHUNK_SIZE_X - 1>>
    /\ last.ret = Some(Panic)

\* C18: ensure_formed on a formed chunk state and ensure_noised on a noised
\* one change nothing, and after either call a second call changes nothing.
C18_EnsureIdempotent ==
    [][ /\ last'.op = "ensure_formed"
           => /\ ChunkState_is_formed(Unwrap(chunk_state)) => chunk_state' = chunk_state
              /\ ChunkState_ensure_formed(Unwrap(chunk_state')) = Unwrap(chunk_state')
        /\ last'.op = "ensure_noised"
           => /\ IsSome(Unwrap(chunk_state).noises) => chunk_state' = chunk_state
              /\ ChunkState_ensure_noised(Unwrap(chunk_state')) = Unwrap(chunk_state') ]_vars

\* An ensure_formed on a chunk state whose data a set_block had changed.
C18_Witness ==
    /\ last.op = "ensure_formed"
    /\ last.seen[1] = TRUE
    /\ Unwrap(chunk_state).data # Some(GeneratedData(Unwrap(chunk_state)))

\* C19: a chunk state that has data has its height field, the one used on
\* its own and every one of the world.
C19_DataOnlyWithNoises ==
    /\ IsSome(chunk_state) /\ IsSome(Unwrap(chunk_state).data)
       => IsSome(Unwrap(chunk_state).noises)
    /\ \A h \in DOMAIN heap : IsSome(heap[h].data) => IsSome(heap[h].noises)

\* A set_block gave data to a chunk state that had neither data nor noises.
C19_Witness ==
    /\ last.op = "cs_set_block"
    /\ last.seen = <<FALSE, FALSE>>
    /\ IsSome(Unwrap(chunk_state).data)
    /\ IsSome(Unwrap(chunk_state).noises)
\* ------------------------------------------------------------------------
\* C20: on every axis the split of a world coordinate x has 0 <= local < N
\* and chunk * N + local = x; no other pair (chunk, local) with a local in
\* range gives x, and no other world coordinate has the same split.
C20_SplitRoundTrip ==
    IsSome(coord) =>
      LET s == Unwrap(coord)
      IN  /\ \A a \in 1 .. 3 :
                /\ 0 <= s.local[a] /\ s.local[a] < CHUNK_SIZE_X
                /\ s.chunk[a] * CHUNK_SIZE_X + s.local[a] = s.v[a]
                /\ \A c \in (-(MaxCoord + 1)) .. (MaxCoord + 1), l \in 0 .. (CHUNK_SIZE_X - 1) :
                      c * CHUNK_SIZE_X + l = s.v[a] => c = s.chunk[a] /\ l = s.local[a]
          /\ \A w \in WorldCoords :
                ChunkOf(w) = s.chunk /\ LocalOf(w) = s.local => w = s.v

\* A coordinate negative on one axis and not a multiple of N there was split.
C20_Witness ==
    /\ IsSome(coord)
    /\ Unwrap(coord).v = <<-(CHUNK_SIZE_X + 1), 0, CHUNK_SIZE_X + 1>>
    /\ Unwrap(coord).chunk = <<-2, 0, 1>>
    /\ Unwrap(coord).local = <<CHUNK_SIZE_X - 1, 0, 1>>

\* ------------------------------------------------------------------------
\* C21: a set_block on a voxel whose chunk has no entry creates the entry
\* with an Empty chunk state; the chunk is formed when the write is applied;
\* from then on the map's chunk holds the id written last to the voxel, so
\* that no formation puts the generated id back, and a get_block of the
\* voxel returns that id.
C21_FirstWriteSurvives ==
    [][ /\ \A t \in Threads :
             LET c == ChunkOf(<<th'[t].x, th'[t].y, th'[t].z>>)
             IN  th[t].pc = "idle" /\ th'[t].pc = "set_form" /\ c \notin DOMAIN chunks
                 => /\ c \in DOMAIN chunks' /\ chunks'[c] = th'[t].chunk
                    /\ heap'[th'[t].chunk] = ChunkState_new(c[1], c[2], c[3])
        /\ \A t \in Threads :
             th[t].pc = "set_write" /\ th'[t].pc = "set_notify"
             => ChunkState_is_formed(heap[th[t].chunk])
        /\ ( \A v \in Voxels :
               IsSome(lastSet[v])
               => /\ FloorChunk(v) \in DOMAIN chunks
                  /\ ChunkState_is_formed(heap[chunks[FloorChunk(v)]])
                  /\ Stored(v) = Unwrap(lastSet[v]) )'
        /\ ( last.op = "get_block" /\ IsSome(lastSet[LastVoxel])
             => last.ret = lastSet[LastVoxel] )' ]_vars

\* C22: the handle a get_chunk returns is that of a formed chunk state, and
\* a chunk state that is formed stays formed, in the map or not.
C22_ReturnedChunkFormed ==
    [][ /\ ( last.op = "get_chunk"
             => /\ last.ret = Some(last.chunk)
                /\ last.chunk \in DOMAIN heap
                /\ ChunkState_is_formed(heap[last.chunk])
                /\ <<heap[last.chunk].x, heap[last.chunk].y, heap[last.chunk].z>>
                     = LastVoxel )'
        /\ \A h \in DOMAIN heap :
             ChunkState_is_formed(heap[h])
             => h \in DOMAIN heap' /\ ChunkState_is_formed(heap'[h]) ]_vars

\* A get_chunk returned the formed chunk state it had created, after an
\* ensure_chunks had put another one in the map in its place.
C22_Witness ==
    /\ last.op = "get_chunk"
    /\ ChunkState_is_formed(heap[last.chunk])
    /\ chunks[LastVoxel] # last.chunk
    /\ ~ChunkState_is_formed(heap[chunks[LastVoxel]])

\* The chunk states of the world no set_block has written to.
Unwritten == { h \in DOMAIN heap : \A v \in Voxels : written[h][v] = None }
SameCoord(a, b) == a.x = b.x /\ a.y = b.y /\ a.z = b.z

C24_EveryCallReturns == <>[](\A t \in Threads : th[t].pc = "idle")

\* A from_range that holds the read lock of its first chunk waits for the
\* lock of its second chunk, which a set_block holds for writing, while the
\* other thread is inside its call.
C24_Witness ==
    \E t, u \in Threads :
        /\ th[t].pc = "fr_lock" /\ Len(th[t].guards) = 1
        /\ th[u].pc = "set_notify"
        /\ locks[th[t].chunk_arcs[2]].writer = u

\* The thread whose call takes the step.
Acts(t) == [th[t] EXCEPT !.clean = TRUE] # [th'[t] EXCEPT !.clean = TRUE]
HoldsChunkLock(t) == \E h \in DOMAIN locks : locks[h].writer = t \/ t \in locks[h].readers

\* C25: a thread that holds the map's lock is inside ensure_chunk or
\* ensure_chunks and holds no chunk lock; the thread whose step takes or
\* drops a chunk lock or changes a chunk's contents does not hold the map's
\* lock, before or after the step; ensure_chunk and ensure_chunks leave
\* the locks of the chunks as they are and return with neither the map's
\* lock nor a chunk lock held.
C25_MapLockApart ==
    [][ /\ ( \A t \in Threads :
               MapHeldBy(t)
               => /\ th[t].pc \in {"map_held", "ecs_probe", "ecs_held"}
                  /\ ~HoldsChunkLock(t) )'
        /\ \A t \in Threads :
             /\ Acts(t)
             /\ \E h \in DOMAIN heap : locks'[h] # locks[h] \/ heap'[h] # heap[h]
             => ~MapHeldBy(t) /\ ~MapHeldBy(t)'
        /\ \A t \in Threads :
             Acts(t) /\ (MapHeldBy(t) \/ MapHeldBy(t)')
             => \A h \in DOMAIN heap : locks'[h] = locks[h] /\ heap'[h] = heap[h]
        /\ ( last.op \in {"ensure_chunk", "ensure_chunks"}
             => ~MapHeldBy(last.who) /\ ~HoldsChunkLock(last.who) )' ]_vars

\* A thread is inside ensure_chunk with the map's lock while the other
\* holds the write lock of a chunk.
C25_Witness ==
    \E t, u \in Threads :
        /\ chunks_lock.writer = t /\ th[t].pc = "map_held"
        /\ th[u].pc = "set_notify"
        /\ locks[th[u].chunk].writer = u

\* C26: a thread holds the read lock of a chunk exactly while it is in the
\* locking loop, the copy loop or at the return of a from_range and has the
\* chunk among its guards; each step of the locking loop takes the read
\* lock of the next covering chunk, a chunk it does not hold yet; during
\* the copy the guards are those of all covering chunks; a from_range that
\* returned holds no chunk lock and not the map's lock, and so does every
\* thread that is not inside a call.
C26_ViewHoldsNoLock ==
    [][ /\ ( \A t \in Threads : \A h \in DOMAIN locks :
               t \in locks[h].readers
               <=> /\ th[t].pc \in {"fr_lock", "fr_copy", "fr_ret"}
                   /\ \E k \in DOMAIN th[t].guards : th[t].guards[k] = h )'
        /\ \A t \in Threads :
             th[t].pc = "fr_lock" /\ Acts(t)
             => LET k == Len(th[t].guards) + 1
                    h == th[t].chunk_arcs[k]
                IN  /\ t \notin locks[h].readers
                    /\ th'[t].guards = Append(th[t].guards, h)
                    /\ locks' = [locks EXCEPT ![h].readers = @ \cup {t}]
        /\ ( \A t \in Threads :
               th[t].pc \in {"fr_copy", "fr_ret"}
               => /\ th[t].guards = th[t].chunk_arcs
                  /\ Len(th[t].guards) = Len(Covering(th[t].box)) )'
        /\ ( /\ last.op = "from_range"
                 => ~HoldsChunkLock(last.who) /\ ~MapHeldBy(last.who)
             /\ \A t \in Threads :
                   th[t].pc = "idle" => ~HoldsChunkLock(t) /\ ~MapHeldBy(t) )' ]_vars

\* A set_block holds the write lock of a chunk that the finished view of
\* the other thread covers.
C26_Witness ==
    \E t, u \in Threads :
        /\ th[t].pc = "idle" /\ IsSome(views[t])
        /\ th[u].pc = "set_notify"
        /\ locks[th[u].chunk].writer = u
        /\ \E k \in DOMAIN Unwrap(views[t]).arcs : Unwrap(views[t]).arcs[k] = th[u].chunk

\* C27: a view that covers both voxels and holds the write to SecondVoxel
\* holds the write to FirstVoxel, which was complete before the other began.
C27_ViewKeepsWriteOrder ==
    \A view \in Views :
        /\ FirstVoxel \in BoxVoxels(view) /\ SecondVoxel \in BoxVoxels(view)
        /\ WorldView_get_block(view, SecondVoxel[1], SecondVoxel[2], SecondVoxel[3]) = 0
        => WorldView_get_block(view, FirstVoxel[1], FirstVoxel[2], FirstVoxel[3]) = 0
\* C28: World::set_block sends its messages after the write and under the
\* chunk's write lock, so a subscriber that has received the message for a
\* chunk and then reads the written voxel of that chunk, through
\* World::get_block or through the view from_world makes, observes that
\* write or a later one (here: an id the writers store), never the id the
\* voxel had before.
C28_SubscriberSeesWrite ==
    [][ /\ last'.pc = "done" /\ last'.op = "get_block" /\ IsSome(last'.seen)
           => Unwrap(last'.ret) \in WriteIds
        /\ last'.pc = "done" /\ last'.op = "from_range" /\ IsSome(last'.seen)
           => \A v \in LockVoxels :
                 ChunkOf(v) = Unwrap(last'.seen)
                 => WorldView_get_block(Unwrap(views'[last'.who]), v[1], v[2], v[3])
                        \in WriteIds ]_vars

\* C29: no interleaving of World::get_block, World::set_block and
\* WorldView::from_range reaches the panic of a read or write of a chunk
\* without data: no call has panicked, none returns the panic, and the
\* chunk a call is about to read or write, or holds for its view, is
\* formed, whatever ran between its formation and its lock.
ReadsOf(t) ==
    CASE th[t].pc \in {"get_read", "set_write", "set_notify"} -> {th[t].chunk}
      [] th[t].pc \in {"fr_ensure", "fr_lock", "fr_copy", "fr_ret"} ->
             {th[t].chunk_arcs[k] : k \in DOMAIN th[t].chunk_arcs}
      [] OTHER -> {}
C29_NoUnformedAccess ==
    /\ \A t \in Threads :
          /\ th[t].pc # "panicked"
          /\ \A h \in ReadsOf(t) : ChunkState_is_formed(heap[h])
    /\ last.op \in {"get_block", "set_block", "from_range"} => last.ret # Some(Panic)
\* A get_block has returned an id from a chunk formed before the read, and
\* in the gap the map's entry of the chunk was replaced by an unformed one.
C29_Witness ==
    /\ last.pc = "done"
    /\ last.op = "get_block"
    /\ IsSome(last.ret) /\ last.ret # Some(Panic)
    /\ chunks[ChunkOf(LastVoxel)] # last.chunk
    /\ ~ChunkState_is_formed(heap[chunks[ChunkOf(LastVoxel)]])

\* C30: a ChunkState only moves forward through Empty, Noised, Formed: in
\* no step of ensure_noised, ensure_formed, get_block, set_block, get_chunk
\* or the construction of a view does a chunk lose its height field
\* (noises, which never changes once present) or its block data, and no
\* ChunkState changes its coordinate or disappears.
Forward(cs, next) ==
    /\ <<next.x, next.y, next.z>> = <<cs.x, cs.y, cs.z>>
    /\ IsSome(cs.noises) => next.noises = cs.noises
    /\ IsSome(cs.data) => IsSome(next.data)
C30_StateMovesForward ==
    [][ /\ \A h \in DOMAIN heap : h \in DOMAIN heap' /\ Forward(heap[h], heap'[h])
        /\ IsSome(chunk_state)
           => IsSome(chunk_state') /\ Forward(Unwrap(chunk_state), Unwrap(chunk_state'))
      ]_vars
\* A set_block has returned from a chunk that was formed before its write
\* and changed a cell of it: the chunk is still formed, with the height
\* field generation gave it.
C30_Witness ==
    /\ last.pc = "done"
    /\ last.op = "set_block"
    /\ last.old # Some(last.block_id)
    /\ ChunkState_is_formed(heap[last.chunk])
    /\ heap[last.chunk].noises = Some(ChunkNoises_new(heap[last.chunk].x,
                                                       heap[last.chunk].y,
                                                       heap[last.chunk].z))

\* C31: World::ensure_chunks over an inclusive cuboid returns one handle per
\* coordinate of the cuboid, in x, y, z loop order; when it returns every
\* coordinate of the cuboid is in the map, each chunk it inserted is Empty,
\* and every chunk that was in the map before its insertions is still the
\* map's chunk for its coordinate, with its state and contents.
C31_EnsureChunksResult ==
    [][ last'.pc = "done" /\ last'.op = "ensure_chunks"
        => LET cube == CuboidSeq(last'.box)
               handles == Unwrap(last'.ret)
           IN  /\ Len(handles) = Len(cube)
               /\ \A k \in DOMAIN cube :
                     /\ <<heap'[handles[k]].x, heap'[handles[k]].y, heap'[handles[k]].z>>
                            = cube[k]
                     /\ cube[k] \in DOMAIN chunks'
               /\ \A h \in DOMAIN heap' :
                     h \notin DOMAIN heap
                     => heap'[h] = ChunkState_new(heap'[h].x, heap'[h].y, heap'[h].z)
               /\ \A c \in DOMAIN chunks :
                     /\ c \in DOMAIN chunks'
                     /\ chunks'[c] = chunks[c]
                     /\ heap'[chunks[c]] = heap[chunks[c]] ]_vars

\* C32: WorldView::from_range over the inclusive box [start, end] ensures
\* and forms exactly the chunks whose coordinate lies in
\* floor(start / N) ..= floor(end / N) on each axis: its steps create and
\* generate no chunk outside that set and modify no voxel of any chunk, and
\* when it returns each chunk of the set is in the map and Formed.
FloorCover(b) ==
    { <<x, y, z>> : x \in (b[1] \div CHUNK_SIZE_X) .. (b[2] \div CHUNK_SIZE_X),
                    y \in (b[3] \div CHUNK_SIZE_X) .. (b[4] \div CHUNK_SIZE_X),
                    z \in (b[5] \div CHUNK_SIZE_X) .. (b[6] \div CHUNK_SIZE_X) }
C32_FromRangeFrame ==
    [][ \A t \in Threads :
          Acts(t) /\ (th[t].op = "from_range" \/ th'[t].op = "from_range")
          => LET b == IF th'[t].op = "from_range" THEN th'[t].box ELSE th[t].box
                 cov == FloorCover(b)
             IN  /\ \A c \in DOMAIN chunks' :
                       IF c \in DOMAIN chunks THEN chunks'[c] = chunks[c] ELSE c \in cov
                 /\ \A h \in DOMAIN heap' :
                       IF h \in DOMAIN heap
                       THEN \/ heap'[h] = heap[h]
                            \/ /\ <<heap[h].x, heap[h].y, heap[h].z>> \in cov
                               /\ ~ChunkState_is_formed(heap[h])
                               /\ heap'[h] = ChunkState_ensure_formed(heap[h])
                       ELSE /\ <<heap'[h].x, heap'[h].y, heap'[h].z>> \in cov
                            /\ heap'[h] = ChunkState_new(heap'[h].x, heap'[h].y, heap'[h].z)
                 /\ th'[t].pc = "idle"
                    => \A c \in cov :
                          /\ c \in DOMAIN chunks'
                          /\ ChunkState_is_formed(heap'[chunks'[c]]) ]_vars

\* The cell of a voxel in its chunk, by floor division, and what a
\* collision chunk made of the world as it is now holds for chunk c.
CellOf(v) ==
    (v[1] % CHUNK_SIZE_X) + (v[2] % CHUNK_SIZE_X) * CHUNK_SIZE_X
    + (v[3] % CHUNK_SIZE_X) * CHUNK_SIZE_X * CHUNK_SIZE_X
SolidNow(c) ==
    [k \in Cells |->
        LET id == Stored(<< c[1] * CHUNK_SIZE_X + CellX(k),
                            c[2] * CHUNK_SIZE_X + CellY(k),
                            c[3] * CHUNK_SIZE_X + CellZ(k) >>)
        IN  id \in {1, 2, 3, 5, 6}]

\* C33: PhysicsEnvironment::solid_at returns true for a coordinate whose
\* chunk has no collision entry or whose entry is pending (its task still
\* runs), leaving the cache as it is and without waiting for the task; once
\* the task has ended or the entry is Ready it returns the cached solidity
\* of the voxel, and the entry is Ready after the call.
C33_SolidAtPolls ==
    [][ last'.op = "solid_at"
        => LET v == <<last'.x, last'.y, last'.z>>
               c == FloorChunk(v)
           IN  IF c \notin DOMAIN collision_chunks
               THEN last'.ret = Some(TRUE) /\ collision_chunks' = collision_chunks
               ELSE IF collision_chunks[c].tag = "Generating"
                       /\ tasks[collision_chunks[c].handle].state = "running"
               THEN /\ last'.ret = Some(TRUE)
                    /\ collision_chunks' = collision_chunks
                    /\ tasks'[collision_chunks[c].handle].state = "running"
               ELSE LET cached == IF collision_chunks[c].tag = "Ready"
                                  THEN collision_chunks[c].value
                                  ELSE tasks[collision_chunks[c].handle].out
                    IN  /\ last'.ret = Some(cached[CellOf(v)])
                        /\ collision_chunks'[c] = [tag |-> "Ready", value |-> cached] ]_vars
\* A poll of a Ready entry has returned its cached answer "not solid" for a
\* voxel that generation made solid.
C33_Witness ==
    /\ last.op = "solid_at"
    /\ last.seen[1] = "Ready"
    /\ last.ret = Some(FALSE)

\* C34: the collision cache converges to the world.  In a state where no
\* set_block is running, every message is processed and the handler waits
\* for the next one, every result the cache holds or is about to take over
\* (a Ready entry, or the result of the task of a pending entry) marks a
\* voxel solid exactly when the world's block there is a solid tile.
Quiescent ==
    /\ handler.pc = "recv"
    /\ channels[handler.rx].queue = <<>>
    /\ \A t \in Threads : th[t].pc = "idle"
C34_CacheConverges ==
    Quiescent
    => \A c \in DOMAIN collision_chunks :
          LET item == collision_chunks[c]
          IN  /\ item.tag = "Ready" => item.value = SolidNow(c)
              /\ item.tag = "Generating" /\ tasks[item.handle].out # <<>>
                 => tasks[item.handle].out = SolidNow(c)
\* Quiescent, with a task that read the voxel as solid before a write made
\* it air, and a Ready entry that says the voxel is not solid.
C34_Witness ==
    /\ Quiescent
    /\ \E h \in DOMAIN tasks : tasks[h].out # <<>> /\ tasks[h].out[0]
    /\ <<0, 0, 0>> \in DOMAIN collision_chunks
    /\ collision_chunks[<<0, 0, 0>>].tag = "Ready"
    /\ ~collision_chunks[<<0, 0, 0>>].value[0]

\* C35: a chunk-update message for a chunk without an entry in the
\* collision cache leaves the cache unchanged, and the handler never
\* creates an entry: its only change to the cache is to make Ready, with the
\* chunk it computed, the entry of the message's chunk when that key is
\* present at the moment of the replacement.
C35_HandlerKeepsKeys ==
    [][ handler' # handler
        => /\ DOMAIN collision_chunks' = DOMAIN collision_chunks
           /\ handler.pc = "has_chunk" /\ Unwrap(handler.msg) \notin DOMAIN collision_chunks
              => collision_chunks' = collision_chunks /\ handler'.pc = "recv"
           /\ collision_chunks' # collision_chunks
              => /\ handler.pc = "insert"
                 /\ Unwrap(handler.msg) \in DOMAIN collision_chunks
                 /\ collision_chunks' =
                       [collision_chunks EXCEPT
                          ![Unwrap(handler.msg)] = [tag |-> "Ready", value |-> handler.chunk]]
      ]_vars
\* The handler has computed a chunk and its entry was discarded meanwhile.
C35_Witness ==
    /\ handler.pc = "insert"
    /\ Unwrap(handler.msg) \notin DOMAIN collision_chunks

\* C36: background work is never spawned twice for a live cache key.  Every
\* task a step starts is the task of one key, a chunk of collision_chunks or
\* a (chunk, LOD) pair of tessellated_chunks, that had no entry before the
\* step, and after the step the entry of the key is Generating with the
\* handle of that task: no task is started for a key that has an entry,
\* pending or ready.
HasMeshKey(cache, p, l) == p \in DOMAIN cache.lods /\ l \in DOMAIN cache.lods[p]
C36_NoSecondSpawn ==
    [][ \A h \in (Len(tasks) + 1) .. Len(tasks') :
           LET c == tasks'[h].chunk
           IN  IF "lod" \in DOMAIN tasks'[h]
               THEN /\ ~HasMeshKey(tessellated_chunks, c, tasks'[h].lod)
                    /\ HasMeshKey(tessellated_chunks', c, tasks'[h].lod)
                    /\ tessellated_chunks'.lods[c][tasks'[h].lod] = QueuedItem_Generating(h)
               ELSE /\ c \notin DOMAIN collision_chunks
                    /\ c \in DOMAIN collision_chunks'
                    /\ collision_chunks'[c] = QueuedItem_Generating(h) ]_vars
\* render_chunks has met a drawn key that has an entry and has started no
\* task, in a map where a chunk has entries of two levels of detail.
C36_Witness ==
    /\ last.op = "render_chunks"
    /\ last.seen = <<1, 0>>
    /\ Len(tasks) = MaxTasks
    /\ \E p \in DOMAIN tessellated_chunks.lods :
          {1, 2} \subseteq DOMAIN tessellated_chunks.lods[p]

\* C37: right after a chunk is formed, the height map has an entry for a
\* column exactly when the grass surface of the column (target height + 3) is
\* a y of this chunk and is above global y 0; the entry is then the local y
\* of the one cell of the column that holds grass (id 3) above global y 0,
\* and a column without an entry has no such cell.
GrassAbove(cs, col) ==
    { y \in 0 .. (CHUNK_SIZE_X - 1) :
        /\ Unwrap(cs.data).block_ids[ChunkData_index(ColX(col), y, ColZ(col))] = 3
        /\ cs.y * CHUNK_SIZE_X + y > 0 }
C37_HeightMap ==
    last.op = "ensure_formed" /\ ~last.seen[1]
    => LET cs == Unwrap(chunk_state)
       IN  \A col \in Columns :
              LET entry == Unwrap(cs.data).height_map[col]
                  surface == TargetHeight(Unwrap(cs.noises), col) + 3
                  inside == surface - cs.y * CHUNK_SIZE_X \in 0 .. (CHUNK_SIZE_X - 1)
              IN  /\ IsSome(entry) <=> (inside /\ surface > 0)
                  /\ IsSome(entry) => /\ cs.y * CHUNK_SIZE_X + Unwrap(entry) = surface
                                      /\ GrassAbove(cs, col) = {Unwrap(entry)}
                  /\ entry = None => GrassAbove(cs, col) = {}
\* A chunk just formed with a column that has an entry, a column whose
\* grass is at global y 0 and a column whose surface is in another chunk.
C37_Witness ==
    /\ last.op = "ensure_formed" /\ ~last.seen[1]
    /\ \E a, b, c \in Columns :
          LET cs == Unwrap(chunk_state)
              data == Unwrap(cs.data)
          IN  /\ IsSome(data.height_map[a])
              /\ data.height_map[b] = None
              /\ data.block_ids[ChunkData_index(ColX(b), 0, ColZ(b))] = 3
              /\ data.height_map[c] = None
              /\ \A y \in 0 .. (CHUNK_SIZE_X - 1) :
                    data.block_ids[ChunkData_index(ColX(c), y, ColZ(c))] # 3

\* C38: change notifications are sent by World::set_block only.  A step that
\* makes the queue of a listener channel longer is a step of the loop over
\* the listeners of a World::set_block call, and appends the message of that
\* call; every other step, of get_block, get_chunk, ensure_chunk,
\* ensure_chunks, from_range and Neighborhood::set_block too, leaves each
\* queue as it is or shorter, and a new channel starts empty.
C38_OnlySetBlockSends ==
    [][ \A c \in DOMAIN channels' :
           IF c \notin DOMAIN channels THEN channels'[c].queue = <<>>
           ELSE Len(channels'[c].queue) > Len(channels[c].queue)
                => \E t \in Threads :
                      /\ th[t].op = "set_block" /\ th[t].pc = "set_notify"
                      /\ th'[t].i = th[t].i + 1
                      /\ chunk_update_listeners[th[t].i] = c
                      /\ channels'[c].queue
                            = Append(channels[c].queue,
                                     ChunkUpdateMessage(<<th[t].x, th[t].y, th[t].z>>)) ]_vars
\* Neighborhood::set_block has written a block of a chunk that was created
\* and formed on demand while a listener is registered, and every queue is
\* empty.
C38_Witness ==
    /\ last.op = "nb_set_block" /\ last.ret = None
    /\ Len(chunk_update_listeners) > 0
    /\ \A c \in DOMAIN channels : channels[c].queue = <<>>

\* C39: a task started by QueuedItem::enqueue is never cancelled.  A task
\* that was started stays running until it is finished and keeps its result
\* then, whether its QueuedItem stays in the cache, is removed by
\* discard_chunk or is replaced by the handler; under fair scheduling the
\* tasks that were started are all finished again and again, and no entry
\* is left Generating then: with solid_at calling get() an entry whose task
\* has ended becomes Ready with the value of the task, unless it is removed
\* or replaced first.
TaskEnded(h) == h \in DOMAIN tasks /\ tasks[h].state = "finished"
Pending(c, h) ==
    c \in DOMAIN collision_chunks /\ collision_chunks[c] = QueuedItem_Generating(h)
C39_TaskRunsToCompletion ==
    /\ []<>(\A h \in DOMAIN tasks : TaskEnded(h) /\ \A c \in PhysChunks : ~Pending(c, h))
    /\ [][ \A h \in DOMAIN tasks :
              /\ h \in DOMAIN tasks'
              /\ tasks'[h].state \in {"running", "finished"}
              /\ tasks[h].state = "finished" => tasks'[h] = tasks[h]
              /\ \A c \in PhysChunks :
                    Pending(c, h) /\ TaskEnded(h) /\ c \in DOMAIN collision_chunks'
                        /\ collision_chunks'[c] # collision_chunks[c]
                        /\ handler' = handler
                    => collision_chunks'[c] = QueuedItem_Ready(tasks[h].out) ]_vars
\* The first task has ended while the entry of its chunk is the pending item
\* of a second task: the item of the first task was dropped.
C39_Witness ==
    /\ TaskEnded(1)
    /\ \E c \in PhysChunks : Pending(c, 2)

====
